---- MODULE Spec2Model ----
(***************************************************************************)
(* Model of the ECL formatter pipeline: tokenizer (lexer.ts), grammar      *)
(* parser (parser.ts), AST builder (visitor.ts), complexity classifier     *)
(* (rules.ts), printer (printer.ts) and the format facade (format.ts).     *)
(*                                                                         *)
(* Text is a sequence of one-character strings, so that tokenizing what    *)
(* the printer produced is a real computation.  Offsets and columns are    *)
(* 0-based as in the source; sequence indices are 1-based.                 *)
(***************************************************************************)
EXTENDS Integers, Sequences, FiniteSets, TLC

\* ------------------------------------------------------------------------
\* Characters
\* ------------------------------------------------------------------------
LowerSeq ==
  <<"a", "b", "c", "d", "e", "f", "g", "h", "i", "j", "k", "l", "m",
    "n", "o", "p", "q", "r", "s", "t", "u", "v", "w", "x", "y", "z">>

UpperSeq ==
  <<"A", "B", "C", "D", "E", "F", "G", "H", "I", "J", "K", "L", "M",
    "N", "O", "P", "Q", "R", "S", "T", "U", "V", "W", "X", "Y", "Z">>

DigitSeq == <<"0", "1", "2", "3", "4", "5", "6", "7", "8", "9">>

Range(f) == {f[i] : i \in DOMAIN f}

Lower == Range(LowerSeq)

Upper == Range(UpperSeq)

Digit == Range(DigitSeq)

Alpha == Lower \cup Upper

AlphaNum == Alpha \cup Digit

IdentChar == AlphaNum \cup {"_"}

\* JavaScript \s restricted to the characters the model's texts contain
SpaceChar == {" ", "\n", "\t", "\r"}

\* a comparison of letters as they are written
KeepCase(c) == c

\* the /i flag: compare after folding to upper case
ToUpper(c) ==
  IF c \in Lower THEN UpperSeq[CHOOSE i \in 1..26 : LowerSeq[i] = c] ELSE c

\* ------------------------------------------------------------------------
\* Text helpers (String.prototype.* as used by the source)
\* ------------------------------------------------------------------------
Min(S) == CHOOSE x \in S : \A y \in S : x <= y

Max(S) == CHOOSE x \in S : \A y \in S : x >= y

\* " ".repeat(n)
repeat(c, n) == [k \in 1..n |-> c]

\* s.slice(1, -1)
slice1(s) == IF Len(s) <= 2 THEN <<>> ELSE SubSeq(s, 2, Len(s) - 1)

\* a text taken as it is
untrimmed(s) == s

\* s.trim()
trim(s) ==
  LET keep == {i \in DOMAIN s : s[i] \notin SpaceChar}
  IN  IF keep = {} THEN <<>> ELSE SubSeq(s, Min(keep), Max(keep))

\* s.includes("\n")
HasNewline(s) == \E i \in DOMAIN s : s[i] = "\n"

\* number of consecutive characters of class C in s starting at index i
RunLen(s, i, C) ==
  Min({j \in i..(Len(s) + 1) : j > Len(s) \/ s[j] \notin C}) - i

\* does the literal lit occur in s at index i (fold = /i flag)
StartsWithAt(s, i, lit, fold) ==
  /\ i + Len(lit) - 1 <= Len(s)
  /\ \A k \in 1..Len(lit) :
       IF fold THEN ToUpper(s[i + k - 1]) = lit[k] ELSE s[i + k - 1] = lit[k]
\* ------------------------------------------------------------------------
\* Tokenizer (lexer.ts).  kind "lit" is a literal pattern, "liti" a literal
\* pattern with the /i flag (text given in upper case), "re" any other
\* regular expression, matched by MatchLen below.
\* ------------------------------------------------------------------------
allTokens ==
  <<
    [name |-> "WhiteSpace", kind |-> "re", text |-> <<>>],
    [name |-> "BlockComment", kind |-> "re", text |-> <<>>],
    [name |-> "DoubleLBrace", kind |-> "lit", text |-> <<"{", "{">>],
    [name |-> "DoubleRBrace", kind |-> "lit", text |-> <<"}", "}">>],
    [name |-> "ChildOrSelfOf", kind |-> "lit", text |-> <<"<", "<", "!">>],
    [name |-> "DescendantOrSelfOf", kind |-> "lit", text |-> <<"<", "<">>],
    [name |-> "ChildOf", kind |-> "lit", text |-> <<"<", "!">>],
    [name |-> "ParentOrSelfOf", kind |-> "lit", text |-> <<">", ">", "!">>],
    [name |-> "AncestorOrSelfOf", kind |-> "lit", text |-> <<">", ">">>],
    [name |-> "ParentOf", kind |-> "lit", text |-> <<">", "!">>],
    [name |-> "NotEquals", kind |-> "lit", text |-> <<"!", "=">>],
    [name |-> "LessThanOrEquals", kind |-> "lit", text |-> <<"<", "=">>],
    [name |-> "GreaterThanOrEquals", kind |-> "lit", text |-> <<">", "=">>],
    [name |-> "Equals", kind |-> "lit", text |-> <<"=">>],
    [name |-> "DescendantOf", kind |-> "lit", text |-> <<"<">>],
    [name |-> "AncestorOf", kind |-> "lit", text |-> <<">">>],
    [name |-> "MemberOf", kind |-> "lit", text |-> <<"^">>],
    [name |-> "Wildcard", kind |-> "lit", text |-> <<"*">>],
    [name |-> "And", kind |-> "liti", text |-> <<"A", "N", "D">>],
    [name |-> "Or", kind |-> "liti", text |-> <<"O", "R">>],
    [name |-> "Minus", kind |-> "liti", text |-> <<"M", "I", "N", "U", "S">>],
    [name |-> "DescendantOrSelfOfKeyword", kind |-> "lit",
       text |-> <<"d", "e", "s", "c", "e", "n", "d", "a", "n", "t", "O", "r", "S", "e", "l", "f", "O", "f">>],
    [name |-> "DescendantOfKeyword", kind |-> "lit",
       text |-> <<"d", "e", "s", "c", "e", "n", "d", "a", "n", "t", "O", "f">>],
    [name |-> "ChildOrSelfOfKeyword", kind |-> "lit",
       text |-> <<"c", "h", "i", "l", "d", "O", "r", "S", "e", "l", "f", "O", "f">>],
    [name |-> "ChildOfKeyword", kind |-> "lit",
       text |-> <<"c", "h", "i", "l", "d", "O", "f">>],
    [name |-> "AncestorOrSelfOfKeyword", kind |-> "lit",
       text |-> <<"a", "n", "c", "e", "s", "t", "o", "r", "O", "r", "S", "e", "l", "f", "O", "f">>],
    [name |-> "AncestorOfKeyword", kind |-> "lit",
       text |-> <<"a", "n", "c", "e", "s", "t", "o", "r", "O", "f">>],
    [name |-> "ParentOrSelfOfKeyword", kind |-> "lit",
       text |-> <<"p", "a", "r", "e", "n", "t", "O", "r", "S", "e", "l", "f", "O", "f">>],
    [name |-> "ParentOfKeyword", kind |-> "lit",
       text |-> <<"p", "a", "r", "e", "n", "t", "O", "f">>],
    [name |-> "MemberOfKeyword", kind |-> "lit",
       text |-> <<"m", "e", "m", "b", "e", "r", "O", "f">>],
    [name |-> "ReverseOf", kind |-> "liti",
       text |-> <<"R", "E", "V", "E", "R", "S", "E", "O", "F">>],
    [name |-> "DefinitionStatusId", kind |-> "lit",
       text |-> <<"d", "e", "f", "i", "n", "i", "t", "i", "o", "n", "S", "t", "a", "t", "u", "s", "I", "d">>],
    [name |-> "EffectiveTime", kind |-> "lit",
       text |-> <<"e", "f", "f", "e", "c", "t", "i", "v", "e", "T", "i", "m", "e">>],
    [name |-> "ModuleId", kind |-> "lit",
       text |-> <<"m", "o", "d", "u", "l", "e", "I", "d">>],
    [name |-> "TypeKeyword", kind |-> "re", text |-> <<>>],
    [name |-> "Language", kind |-> "lit",
       text |-> <<"l", "a", "n", "g", "u", "a", "g", "e">>],
    [name |-> "Dialect", kind |-> "re", text |-> <<>>],
    [name |-> "TermKeyword", kind |-> "lit", text |-> <<"t", "e", "r", "m">>],
    [name |-> "Active", kind |-> "lit",
       text |-> <<"a", "c", "t", "i", "v", "e">>],
    [name |-> "Match", kind |-> "lit", text |-> <<"m", "a", "t", "c", "h">>],
    [name |-> "Wild", kind |-> "lit", text |-> <<"w", "i", "l", "d">>],
    [name |-> "Preferred", kind |-> "lit",
       text |-> <<"P", "R", "E", "F", "E", "R", "R", "E", "D">>],
    [name |-> "Acceptable", kind |-> "lit",
       text |-> <<"A", "C", "C", "E", "P", "T", "A", "B", "L", "E">>],
    [name |-> "Primitive", kind |-> "lit",
       text |-> <<"P", "R", "I", "M", "I", "T", "I", "V", "E">>],
    [name |-> "Defined", kind |-> "lit",
       text |-> <<"D", "E", "F", "I", "N", "E", "D">>],
    [name |-> "True", kind |-> "lit", text |-> <<"t", "r", "u", "e">>],
    [name |-> "False", kind |-> "lit", text |-> <<"f", "a", "l", "s", "e">>],
    [name |-> "LParen", kind |-> "lit", text |-> <<"(">>],
    [name |-> "RParen", kind |-> "lit", text |-> <<")">>],
    [name |-> "LBrace", kind |-> "lit", text |-> <<"{">>],
    [name |-> "RBrace", kind |-> "lit", text |-> <<"}">>],
    [name |-> "LBracket", kind |-> "lit", text |-> <<"[">>],
    [name |-> "RBracket", kind |-> "lit", text |-> <<"]">>],
    [name |-> "Colon", kind |-> "lit", text |-> <<":">>],
    [name |-> "Comma", kind |-> "lit", text |-> <<",">>],
    [name |-> "Hash", kind |-> "lit", text |-> <<"#">>],
    [name |-> "DotDot", kind |-> "lit", text |-> <<".", ".">>],
    [name |-> "Dot", kind |-> "lit", text |-> <<".">>],
    [name |-> "TermString", kind |-> "re", text |-> <<>>],
    [name |-> "Pipe", kind |-> "lit", text |-> <<"|">>],
    [name |-> "AlternateIdCode", kind |-> "re", text |-> <<>>],
    [name |-> "DecimalValue", kind |-> "re", text |-> <<>>],
    [name |-> "SignedInteger", kind |-> "re", text |-> <<>>],
    [name |-> "SctId", kind |-> "re", text |-> <<>>],
    [name |-> "Integer", kind |-> "re", text |-> <<>>],
    [name |-> "StringLiteral", kind |-> "re", text |-> <<>>],
    [name |-> "DialectAlias", kind |-> "re", text |-> <<>>],
    [name |-> "Identifier", kind |-> "re", text |-> <<>>]
  >>

TypeIdText == <<"t", "y", "p", "e", "I", "d">>

TypeText == <<"t", "y", "p", "e">>

DialectIdText == <<"d", "i", "a", "l", "e", "c", "t", "I", "d">>

DialectText == <<"d", "i", "a", "l", "e", "c", "t">>

\* group: Lexer.SKIPPED
SkippedTokens == {"WhiteSpace", "BlockComment"}

\* index of the "/" closing the first "*/" at or after j, 0 if none
CommentEnd(s, j) ==
  LET ends == {k \in j..(Len(s) - 1) : s[k] = "*" /\ s[k + 1] = "/"}
  IN  IF ends = {} THEN 0 ELSE Min(ends) + 1

RECURSIVE StringEnd(_, _)
\* index of the closing quote of ([^"\\]|\\.)*" starting at j, 0 if none
StringEnd(s, j) ==
  IF j > Len(s) THEN 0
  ELSE IF s[j] = "\"" THEN j
  ELSE IF s[j] = "\\"
       THEN IF j + 1 <= Len(s) /\ s[j + 1] # "\n"
            THEN StringEnd(s, j + 2) ELSE 0
  ELSE StringEnd(s, j + 1)

\* length of [^|]* at index i
NotPipeLen(s, i) == RunLen(s, i, {s[k] : k \in DOMAIN s} \ {"|"})

RECURSIVE AltCodeGroups(_, _)
\* length of (?:-[a-zA-Z0-9]+)* at index p
AltCodeGroups(s, p) ==
  IF p <= Len(s) /\ s[p] = "-" /\ RunLen(s, p + 1, AlphaNum) >= 1
  THEN 1 + RunLen(s, p + 1, AlphaNum)
         + AltCodeGroups(s, p + 1 + RunLen(s, p + 1, AlphaNum))
  ELSE 0

\* /[+-]?\d+\.\d+/, a decimal number with a fraction of any length
DecimalValueLenOfAnyFraction(s, i) ==
  LET sg == IF s[i] \in {"+", "-"} THEN 1 ELSE 0
      d  == RunLen(s, i + sg, Digit)
      p  == i + sg + d
      f  == RunLen(s, p + 1, Digit)
  IN  IF d >= 1 /\ p <= Len(s) /\ s[p] = "." /\ f >= 1
      THEN sg + d + 1 + f ELSE 0

\* /[+-]?\d+\.(?!\d{6})\d+/
DecimalValueLen(s, i) ==
  LET sg == IF s[i] \in {"+", "-"} THEN 1 ELSE 0
      d  == RunLen(s, i + sg, Digit)
      p  == i + sg + d
      f  == RunLen(s, p + 1, Digit)
  IN  IF d >= 1 /\ p <= Len(s) /\ s[p] = "." /\ f >= 1 /\ f < 6
      THEN sg + d + 1 + f ELSE 0

\* length of the match of token type T at index i of s, 0 if it does not match
MatchLen(T, s, i) ==
  CASE T.kind = "lit" ->
         IF StartsWithAt(s, i, T.text, FALSE) THEN Len(T.text) ELSE 0
    [] T.kind = "liti" ->
         IF StartsWithAt(s, i, T.text, TRUE) THEN Len(T.text) ELSE 0
    [] T.name = "WhiteSpace" -> RunLen(s, i, SpaceChar)
    [] T.name = "BlockComment" ->
         IF StartsWithAt(s, i, <<"/", "*">>, FALSE) /\ CommentEnd(s, i + 2) > 0
         THEN CommentEnd(s, i + 2) - i + 1 ELSE 0
    [] T.name = "TypeKeyword" ->
         IF StartsWithAt(s, i, TypeIdText, FALSE) THEN Len(TypeIdText)
         ELSE IF StartsWithAt(s, i, TypeText, FALSE) THEN Len(TypeText) ELSE 0
    [] T.name = "Dialect" ->
         IF StartsWithAt(s, i, DialectIdText, FALSE) THEN Len(DialectIdText)
         ELSE IF StartsWithAt(s, i, DialectText, FALSE) THEN Len(DialectText)
         ELSE 0
    [] T.name = "TermString" ->
         IF s[i] = "|" /\ i + 1 + NotPipeLen(s, i + 1) <= Len(s)
         THEN NotPipeLen(s, i + 1) + 2 ELSE 0
    [] T.name = "AlternateIdCode" ->
         LET d == RunLen(s, i, Digit)
         IN  IF d >= 1 /\ AltCodeGroups(s, i + d) > 0
             THEN d + AltCodeGroups(s, i + d) ELSE 0
    [] T.name = "DecimalValue" -> DecimalValueLen(s, i)
    [] T.name = "SignedInteger" ->
         IF s[i] \in {"+", "-"} /\ RunLen(s, i + 1, Digit) >= 1
         THEN 1 + RunLen(s, i + 1, Digit) ELSE 0
    [] T.name = "SctId" ->
         LET n == RunLen(s, i, Digit)
         IN  IF n >= 6 THEN (IF n > 18 THEN 18 ELSE n) ELSE 0
    [] T.name = "Integer" -> RunLen(s, i, Digit)
    [] T.name = "StringLiteral" ->
         IF s[i] = "\"" /\ StringEnd(s, i + 1) > 0
         THEN StringEnd(s, i + 1) - i + 1 ELSE 0
    [] T.name = "DialectAlias" ->
         IF /\ i + 4 <= Len(s)
            /\ s[i] \in Lower /\ s[i + 1] \in Lower /\ s[i + 2] = "-"
            /\ s[i + 3] \in Upper /\ s[i + 4] \in Upper
         THEN 5 ELSE 0
    [] T.name = "Identifier" ->
         IF s[i] \in Alpha THEN 1 + RunLen(s, i + 1, IdentChar) ELSE 0
    [] OTHER -> 0

\* index in allTokens of the first of the token types with the shortest
\* match at index i, or 0: a lexer that prefers the short operators
ShortestMatch(s, i) ==
  LET hits == {k \in DOMAIN allTokens : MatchLen(allTokens[k], s, i) > 0}
      short == {k \in hits : \A h \in hits :
                  MatchLen(allTokens[k], s, i) <= MatchLen(allTokens[h], s, i)}
  IN  IF hits = {} THEN 0 ELSE Min(short)

\* index in allTokens of the first token type matching at index i, or 0
FirstMatch(s, i) ==
  LET hits == {k \in DOMAIN allTokens : MatchLen(allTokens[k], s, i) > 0}
  IN  IF hits = {} THEN 0 ELSE Min(hits)

\* characters dropped by the lexer's error recovery starting at i: up to
\* the next index where some pattern matches
SkipLen(s, i) ==
  Min({j \in (i + 1)..(Len(s) + 1) : j > Len(s) \/ FirstMatch(s, j) # 0}) - i

\* the message of a lexical error names the character that matches no token
buildUnexpectedCharactersMessage(c) ==
  CASE c = "$" -> "unexpected character: ->$<-"
    [] c = "%" -> "unexpected character: ->%<-"
    [] c = "@" -> "unexpected character: ->@<-"
    [] OTHER -> "unexpected character"

\* one round of the lexer's loop at index st.i
LexStep(s, st) ==
  LET k == FirstMatch(s, st.i)
      T == allTokens[k]
      n == MatchLen(T, s, st.i)
  IN  IF st.i > Len(s) THEN st
      ELSE IF k = 0
      THEN [st EXCEPT !.i = @ + SkipLen(s, st.i),
                      !.errors = Append(@, [stage |-> "lexer",
                                            message |->
                                              buildUnexpectedCharactersMessage(s[st.i]),
                                            offset |-> st.i - 1])]
      ELSE IF T.name \in SkippedTokens THEN [st EXCEPT !.i = @ + n]
      ELSE [st EXCEPT !.i = @ + n,
                      !.tokens = Append(@, [tokenType |-> T.name,
                                            image |-> SubSeq(s, st.i, st.i + n - 1),
                                            startOffset |-> st.i - 1])]

RECURSIVE LexLoop(_, _, _)
\* n rounds of the loop (halved, so that evaluation nests only log n deep)
LexLoop(s, st, n) ==
  IF st.i > Len(s) THEN st
  ELSE IF n <= 1 THEN LexStep(s, st)
  ELSE LexLoop(s, LexLoop(s, st, n \div 2), n - (n \div 2))

\* EclLexer.tokenize(text): every round consumes at least one character
tokenize(text) ==
  LET st == LexLoop(text, [i |-> 1, tokens |-> <<>>, errors |-> <<>>],
                    Len(text))
  IN  [tokens |-> st.tokens, errors |-> st.errors]
\* ------------------------------------------------------------------------
\* Grammar parser (parser.ts, class EclParser).  Each rule is written with
\* the parser's own building blocks (CONSUME, SUBRULE, OPTION, MANY, OR);
\* the lookahead sets are the ones performSelfAnalysis() derives from the
\* grammar.  A CST node keeps the tokens its rule consumed and the nodes of
\* its sub-rules, each in order; the visitor's ctx.X is the sub-sequence
\* with key X.
\* ------------------------------------------------------------------------

\* deepest nesting of rule invocations the call stack holds before the
\* runtime raises RangeError inside parser.expressionConstraint()
StackLimit == 20

NoError == [stage |-> "none", message |-> "", offset |-> -1]

LA(toks, pos) == IF pos <= Len(toks) THEN toks[pos].tokenType ELSE "EOF"

SyntaxError(toks, pos, msg) ==
  [stage |-> "parser", message |-> msg,
   offset |-> IF pos <= Len(toks) THEN toks[pos].startOffset ELSE -1]

StackOverflow ==
  [stage |-> "exception",
   message |-> "RangeError: Maximum call stack size exceeded", offset |-> -1]

EmptyCst == [name |-> "", tokens |-> <<>>, children |-> <<>>]

ConstraintOperatorTokens ==
  {"ChildOrSelfOf", "DescendantOrSelfOf", "ChildOf", "DescendantOf",
   "ParentOrSelfOf", "AncestorOrSelfOf", "ParentOf", "AncestorOf", "MemberOf",
   "DescendantOrSelfOfKeyword", "DescendantOfKeyword",
   "ChildOrSelfOfKeyword", "ChildOfKeyword",
   "AncestorOrSelfOfKeyword", "AncestorOfKeyword",
   "ParentOrSelfOfKeyword", "ParentOfKeyword", "MemberOfKeyword"}

FocusConceptFirst == {"SctId", "Wildcard", "LParen", "Identifier"}

AttributeNameFirst == ConstraintOperatorTokens \cup FocusConceptFirst

AttributeFirst == AttributeNameFirst \cup {"ReverseOf"}

BooleanOperatorTokens == {"And", "Or", "Minus"}

ConjunctionTokens == {"And", "Or", "Comma"}

ComparatorTokens ==
  {"Equals", "NotEquals", "LessThanOrEquals", "GreaterThanOrEquals",
   "DescendantOf", "AncestorOf"}

\* this.CONSUME(T)
CONSUME(T) == [op |-> "CONSUME", types |-> {T}, label |-> ""]

\* this.CONSUME(T, { LABEL: label })
CONSUMELabel(T, label) == [op |-> "CONSUME", types |-> {T}, label |-> label]

\* this.OR([{ ALT: () => this.CONSUME(T1) }, { ALT: () => this.CONSUME(T2) }, ...])
CONSUMEOneOf(Ts) == [op |-> "CONSUME", types |-> Ts, label |-> ""]

\* this.SUBRULE(this.rule)
SUBRULE(rule) == [op |-> "SUBRULE", rule |-> rule]

\* an alternative or optional production entered when the next token is in
\* first, the one after it in second (if given), and the gate rule (if
\* given) parses from here
Guarded(first, second, gate, body) ==
  [first |-> first, second |-> second, gate |-> gate, body |-> body]

ALT(first, body) == Guarded(first, {}, "", body)

\* this.OPTION(() => body)
OPTION(first, body) == [op |-> "OPTION", alts |-> <<ALT(first, body)>>]

\* this.MANY(() => body)
MANY(first, body) == [op |-> "MANY", alts |-> <<ALT(first, body)>>]

\* this.OR([alts])
OR(alts) == [op |-> "OR", alts |-> alts]

expressionConstraint ==
  << SUBRULE("simpleOrRefinedExpression"),
     MANY(BooleanOperatorTokens,
          << SUBRULE("booleanOperator"),
             SUBRULE("simpleOrRefinedExpression") >>) >>

simpleOrRefinedExpression ==
  << SUBRULE("subExpressionConstraint"),
     OPTION({"Colon"}, << CONSUME("Colon"), SUBRULE("eclRefinement") >>) >>

booleanOperator == << CONSUMEOneOf(BooleanOperatorTokens) >>

subExpressionConstraint ==
  << OPTION(ConstraintOperatorTokens, << SUBRULE("constraintOperator") >>),
     SUBRULE("eclFocusConcept"),
     MANY({"DoubleLBrace"}, << SUBRULE("filterConstraint") >>),
     MANY({"Dot"}, << CONSUME("Dot"), SUBRULE("eclAttributeName") >>) >>

constraintOperator == << CONSUMEOneOf(ConstraintOperatorTokens) >>

eclFocusConcept ==
  << OR(<< ALT({"SctId"}, << SUBRULE("eclConceptReference") >>),
           ALT({"Wildcard"}, << CONSUME("Wildcard") >>),
           ALT({"LParen"}, << CONSUME("LParen"),
                              SUBRULE("expressionConstraint"),
                              CONSUME("RParen") >>),
           ALT({"Identifier"}, << SUBRULE("alternateIdentifier") >>) >>) >>

eclConceptReference ==
  << CONSUME("SctId"), OPTION({"TermString"}, << CONSUME("TermString") >>) >>

alternateIdentifier ==
  << CONSUME("Identifier"), CONSUME("Hash"),
     CONSUMEOneOf({"StringLiteral", "AlternateIdCode", "SctId", "Identifier"}) >>

eclRefinement ==
  << SUBRULE("eclRefinementItem"),
     MANY(ConjunctionTokens,
          << CONSUMEOneOf(ConjunctionTokens), SUBRULE("eclRefinementItem") >>) >>

eclRefinementItem ==
  << OPTION({"LBracket"}, << SUBRULE("cardinality") >>),
     OR(<< ALT({"LBrace"}, << SUBRULE("eclAttributeGroup") >>),
           ALT(AttributeFirst, << SUBRULE("subAttributeSet") >>) >>) >>

eclAttributeGroup ==
  << CONSUME("LBrace"), SUBRULE("eclAttributeSet"), CONSUME("RBrace") >>

eclAttributeSet ==
  << SUBRULE("subAttributeSet"),
     MANY(ConjunctionTokens,
          << CONSUMEOneOf(ConjunctionTokens), SUBRULE("subAttributeSet") >>) >>

\* GATE: this.BACKTRACK(this.parenthesizedAttributeSet)
subAttributeSet ==
  << OR(<< Guarded({"LParen"}, {}, "parenthesizedAttributeSet",
                   << SUBRULE("parenthesizedAttributeSet") >>),
           ALT(AttributeFirst, << SUBRULE("eclAttribute") >>) >>) >>

parenthesizedAttributeSet ==
  << CONSUME("LParen"), SUBRULE("eclAttributeSet"), CONSUME("RParen") >>

\* the reverse flag is "R" lexed as Identifier: the option is entered on an
\* Identifier only when the token after it can start an attribute name
eclAttribute ==
  << [op |-> "OPTION",
      alts |-> << ALT({"ReverseOf"}, << CONSUME("ReverseOf") >>),
                  Guarded({"Identifier"}, AttributeNameFirst, "",
                          << CONSUMELabel("Identifier", "ReverseR") >>) >>],
     SUBRULE("eclAttributeName"),
     SUBRULE("comparator"),
     OR(<< ALT({"Hash"}, << CONSUME("Hash"), SUBRULE("numericValue") >>),
           ALT(AttributeNameFirst \cup {"StringLiteral", "True", "False"},
               << SUBRULE("eclAttributeValue") >>) >>) >>

eclAttributeName ==
  << OPTION(ConstraintOperatorTokens, << SUBRULE("constraintOperator") >>),
     SUBRULE("eclFocusConcept"),
     MANY({"DoubleLBrace"}, << SUBRULE("filterConstraint") >>) >>

comparator == << CONSUMEOneOf(ComparatorTokens) >>

eclAttributeValue ==
  << OR(<< ALT({"StringLiteral"}, << CONSUME("StringLiteral") >>),
           ALT({"True"}, << CONSUME("True") >>),
           ALT({"False"}, << CONSUME("False") >>),
           ALT(AttributeNameFirst, << SUBRULE("subExpressionConstraint") >>) >>) >>

numericValue == << CONSUMEOneOf({"DecimalValue", "SignedInteger", "Integer"}) >>

cardinality ==
  << CONSUME("LBracket"), CONSUMEOneOf({"Integer", "Wildcard"}),
     CONSUME("DotDot"), CONSUMEOneOf({"Integer", "Wildcard"}),
     CONSUME("RBracket") >>

filterConstraint ==
  << CONSUME("DoubleLBrace"), SUBRULE("filterExpressionConstraint"),
     CONSUME("DoubleRBrace") >>

filterExpressionConstraint ==
  << SUBRULE("filter"),
     MANY(ConjunctionTokens,
          << CONSUMEOneOf(ConjunctionTokens), SUBRULE("filter") >>) >>

\* seven alternatives: an EffectiveTime token starts none of them
filter ==
  << OR(<< ALT({"TermKeyword"}, << SUBRULE("termFilter") >>),
           ALT({"Language"}, << SUBRULE("languageFilter") >>),
           ALT({"TypeKeyword"}, << SUBRULE("typeFilter") >>),
           ALT({"Dialect"}, << SUBRULE("dialectFilter") >>),
           ALT({"ModuleId"}, << SUBRULE("moduleFilter") >>),
           ALT({"Active"}, << SUBRULE("activeFilter") >>),
           ALT({"DefinitionStatusId"},
               << SUBRULE("definitionStatusFilter") >>) >>) >>

termFilter ==
  << CONSUME("TermKeyword"), CONSUME("Equals"),
     OPTION({"Match", "Wild"},
            << CONSUMEOneOf({"Match", "Wild"}), CONSUME("Colon") >>),
     OR(<< ALT({"LParen"},
               << CONSUME("LParen"), CONSUME("StringLiteral"),
                  MANY({"StringLiteral"}, << CONSUME("StringLiteral") >>),
                  CONSUME("RParen") >>),
           ALT({"StringLiteral"}, << CONSUME("StringLiteral") >>) >>) >>

languageFilter ==
  << CONSUME("Language"), CONSUME("Equals"), CONSUME("DialectAlias") >>

typeFilter ==
  << CONSUME("TypeKeyword"), CONSUME("Equals"),
     OR(<< ALT({"Preferred"}, << CONSUME("Preferred") >>),
           ALT({"Acceptable"}, << CONSUME("Acceptable") >>),
           ALT({"SctId"}, << SUBRULE("eclConceptReference") >>) >>) >>

dialectFilter ==
  << CONSUME("Dialect"), CONSUME("Equals"),
     OR(<< ALT({"DialectAlias"}, << CONSUME("DialectAlias") >>),
           ALT({"SctId"}, << SUBRULE("eclConceptReference") >>) >>),
     OPTION({"LParen"},
            << CONSUME("LParen"), CONSUMEOneOf({"Preferred", "Acceptable"}),
               CONSUME("RParen") >>) >>

moduleFilter ==
  << CONSUME("ModuleId"), CONSUME("Equals"), SUBRULE("eclConceptReference") >>

activeFilter ==
  << CONSUME("Active"), CONSUME("Equals"), CONSUMEOneOf({"True", "False"}) >>

definitionStatusFilter ==
  << CONSUME("DefinitionStatusId"), CONSUME("Equals"),
     OR(<< ALT({"Primitive"}, << CONSUME("Primitive") >>),
           ALT({"Defined"}, << CONSUME("Defined") >>),
           ALT({"SctId"}, << SUBRULE("eclConceptReference") >>) >>) >>

\* this.RULE(name, body)
RULE(name) ==
  CASE name = "expressionConstraint" -> expressionConstraint
    [] name = "simpleOrRefinedExpression" -> simpleOrRefinedExpression
    [] name = "booleanOperator" -> booleanOperator
    [] name = "subExpressionConstraint" -> subExpressionConstraint
    [] name = "constraintOperator" -> constraintOperator
    [] name = "eclFocusConcept" -> eclFocusConcept
    [] name = "eclConceptReference" -> eclConceptReference
    [] name = "alternateIdentifier" -> alternateIdentifier
    [] name = "eclRefinement" -> eclRefinement
    [] name = "eclRefinementItem" -> eclRefinementItem
    [] name = "eclAttributeGroup" -> eclAttributeGroup
    [] name = "eclAttributeSet" -> eclAttributeSet
    [] name = "subAttributeSet" -> subAttributeSet
    [] name = "parenthesizedAttributeSet" -> parenthesizedAttributeSet
    [] name = "eclAttribute" -> eclAttribute
    [] name = "eclAttributeName" -> eclAttributeName
    [] name = "comparator" -> comparator
    [] name = "eclAttributeValue" -> eclAttributeValue
    [] name = "numericValue" -> numericValue
    [] name = "cardinality" -> cardinality
    [] name = "filterConstraint" -> filterConstraint
    [] name = "filterExpressionConstraint" -> filterExpressionConstraint
    [] name = "filter" -> filter
    [] name = "termFilter" -> termFilter
    [] name = "languageFilter" -> languageFilter
    [] name = "typeFilter" -> typeFilter
    [] name = "dialectFilter" -> dialectFilter
    [] name = "moduleFilter" -> moduleFilter
    [] name = "activeFilter" -> activeFilter
    [] name = "definitionStatusFilter" -> definitionStatusFilter

\* The parser's state while rules run: the stack of rule invocations in
\* progress (what is left of each body, what it has consumed so far), the
\* input position, the alternative of the current OR under examination
\* with the answer of its gate, and the states saved by BACKTRACK trials.
NewFrame(name) ==
  [name |-> name, todo |-> RULE(name), tokens |-> <<>>, children |-> <<>>]

StartRule(name) ==
  [st |-> "run", pos |-> 1, stack |-> <<NewFrame(name)>>, alt |-> 1,
   gate |-> "none", trials |-> <<>>, err |-> NoError, cst |-> EmptyCst]

\* steps enough for any run: each one consumes a token, opens or closes a
\* rule invocation, or examines one alternative of a production
ParseFuel(toks) == 64 * (Len(toks) + 1)

\* the end of a BACKTRACK trial: reloadRecogState(orgState), and the gate
\* answers whether the trial rule parsed
EndTrial(m, answer) ==
  LET saved == m.trials[Len(m.trials)]
  IN  [m EXCEPT !.pos = saved.pos, !.stack = saved.stack, !.alt = saved.alt,
                !.gate = answer,
                !.trials = SubSeq(@, 1, Len(@) - 1)]

\* a recognition exception: inside a trial it ends the trial, otherwise it
\* is recorded and ends the run
Raise(m, e) ==
  IF Len(m.trials) > 0 THEN EndTrial(m, "err")
  ELSE [m EXCEPT !.st = "err", !.err = e]

\* any other exception propagates out of trials and rules alike
Throw(m) == [m EXCEPT !.st = "throw", !.err = StackOverflow]

\* does the lookahead of alternative a match at position pos
Viable(a, toks, pos) ==
  /\ LA(toks, pos) \in a.first
  /\ a.second = {} \/ LA(toks, pos + 1) \in a.second

\* one step of the rule invocation on top of the stack
ParseStep(m, toks) ==
  LET d    == Len(m.stack)
      top  == m.stack[d]
      ins  == top.todo[1]
      rest == Tail(top.todo)
      node == [name |-> top.name, tokens |-> top.tokens,
               children |-> top.children]
      a    == ins.alts[m.alt]
  IN  IF Len(top.todo) = 0
      THEN \* the rule on top returns
           IF Len(m.trials) > 0 /\ m.trials[Len(m.trials)].height = d - 1
           THEN EndTrial(m, "ok")
           ELSE IF d = 1
           THEN [m EXCEPT !.st = "ok", !.cst = node, !.stack = <<>>]
           ELSE [m EXCEPT !.stack =
                   [SubSeq(m.stack, 1, d - 1) EXCEPT
                      ![d - 1].children = Append(@, node)]]
      ELSE CASE ins.op = "CONSUME" ->
             IF LA(toks, m.pos) \in ins.types
             THEN [m EXCEPT
                     !.pos = @ + 1,
                     !.stack[d].todo = rest,
                     !.stack[d].tokens =
                        Append(@, [key |-> IF ins.label = ""
                                           THEN toks[m.pos].tokenType
                                           ELSE ins.label,
                                   image |-> toks[m.pos].image,
                                   startOffset |-> toks[m.pos].startOffset])]
             ELSE Raise(m, SyntaxError(toks, m.pos,
                             IF Cardinality(ins.types) = 1
                             THEN "MismatchedTokenException"
                             ELSE "NoViableAltException"))
        [] ins.op = "SUBRULE" ->
             IF d >= StackLimit THEN Throw(m)
             ELSE [m EXCEPT !.stack = Append([m.stack EXCEPT ![d].todo = rest],
                                             NewFrame(ins.rule))]
        [] OTHER ->
             \* OR / OPTION / MANY: the alternatives in order, gate first
             IF m.alt > Len(ins.alts)
             THEN IF ins.op = "OR"
                  THEN Raise([m EXCEPT !.alt = 1],
                             SyntaxError(toks, m.pos, "NoViableAltException"))
                  ELSE [m EXCEPT !.alt = 1, !.stack[d].todo = rest]
             ELSE IF a.gate # "" /\ m.gate = "none"
             THEN IF d >= StackLimit THEN Throw(m)
                  ELSE [m EXCEPT
                          !.trials = Append(@, [pos |-> m.pos,
                                                stack |-> m.stack,
                                                alt |-> m.alt,
                                                height |-> d]),
                          !.stack = Append(@, NewFrame(a.gate)),
                          !.alt = 1]
             ELSE IF (a.gate = "" \/ m.gate = "ok") /\ Viable(a, toks, m.pos)
             THEN [m EXCEPT
                     !.alt = 1, !.gate = "none",
                     !.stack[d].todo =
                        a.body \o (IF ins.op = "MANY" THEN <<ins>> ELSE <<>>)
                               \o rest]
             ELSE [m EXCEPT !.alt = @ + 1, !.gate = "none"]

RECURSIVE ParseLoop(_, _, _)
\* n steps (halved, so that evaluation nests only log n deep)
ParseLoop(m, toks, n) ==
  IF m.st # "run" THEN m
  ELSE IF n <= 1 THEN ParseStep(m, toks)
  ELSE ParseLoop(ParseLoop(m, toks, n \div 2), toks, n - (n \div 2))

\* parser.expressionConstraint() on parser.input: the CST, the errors the
\* run records, and whether an exception left the call.  Tokens left after
\* the top rule are a NotAllInputParsedException.
RunGrammar(toks) ==
  LET r == ParseLoop(StartRule("expressionConstraint"), toks, ParseFuel(toks))
  IN  IF r.st = "throw"
      THEN [thrown |-> TRUE, cst |-> EmptyCst, errors |-> <<r.err>>]
      ELSE IF r.st = "err"
      THEN [thrown |-> FALSE, cst |-> EmptyCst, errors |-> <<r.err>>]
      ELSE IF r.pos <= Len(toks)
      THEN [thrown |-> FALSE, cst |-> r.cst,
            errors |-> <<SyntaxError(toks, r.pos, "NotAllInputParsedException")>>]
      ELSE [thrown |-> FALSE, cst |-> r.cst, errors |-> <<>>]


\* ------------------------------------------------------------------------
\* AST builder (visitor.ts, class EclAstVisitor).  ctx.X of a CST node is
\* the sequence of its tokens (or sub-rule nodes) with key X; an optional
\* field that the visitor leaves unset holds Undefined.
\* ------------------------------------------------------------------------
Undefined == [type |-> "undefined"]

ctxTokens(ctx, key) == SelectSeq(ctx.tokens, LAMBDA t : t.key = key)

ctxNodes(ctx, rule) == SelectSeq(ctx.children, LAMBDA c : c.name = rule)

has(ctx, key) == \E i \in DOMAIN ctx.tokens : ctx.tokens[i].key = key

hasNode(ctx, rule) == \E i \in DOMAIN ctx.children : ctx.children[i].name = rule

\* parseInt(image, 10) of a run of digits, kept as its decimal numeral
\* (the number without leading zeros), which String() gives back
parseInt(image) ==
  LET nz == {i \in DOMAIN image : image[i] # "0"}
  IN  IF nz = {} THEN <<"0">> ELSE SubSeq(image, Min(nz), Len(image))

\* the conjunctions the loops of eclRefinement and eclAttributeSet push
\* for items 2..n: the i-th And token if there is one, else the i-th Or
\* token, else the i-th Comma token, else nothing
conjunctionsOf(ctx, n) ==
  LET a == Len(ctxTokens(ctx, "And"))
      o == Len(ctxTokens(ctx, "Or"))
      c == Len(ctxTokens(ctx, "Comma"))
      m == Min({n - 1, Max({a, o, c})})
  IN  [i \in 1..m |-> IF i <= a THEN "AND" ELSE IF i <= o THEN "OR" ELSE ","]

\* the loop of filterExpressionConstraint: And and Or tokens only
filterConjunctionsOf(ctx, n) ==
  LET a == Len(ctxTokens(ctx, "And"))
      o == Len(ctxTokens(ctx, "Or"))
      m == Min({n - 1, Max({a, o})})
  IN  [i \in 1..m |-> IF i <= a THEN "AND" ELSE "OR"]

EclAstVisitor_booleanOperator(ctx) ==
  IF has(ctx, "And") THEN "AND" ELSE IF has(ctx, "Or") THEN "OR" ELSE "MINUS"

EclAstVisitor_constraintOperator(ctx) ==
  [type |-> "ConstraintOperator",
   operator |->
     CASE has(ctx, "ChildOrSelfOf") -> "<<!"
       [] has(ctx, "DescendantOrSelfOf") -> "<<"
       [] has(ctx, "ChildOf") -> "<!"
       [] has(ctx, "DescendantOf") -> "<"
       [] has(ctx, "ParentOrSelfOf") -> ">>!"
       [] has(ctx, "AncestorOrSelfOf") -> ">>"
       [] has(ctx, "ParentOf") -> ">!"
       [] has(ctx, "AncestorOf") -> ">"
       [] has(ctx, "MemberOf") -> "^"
       [] has(ctx, "DescendantOrSelfOfKeyword") -> "descendantOrSelfOf"
       [] has(ctx, "DescendantOfKeyword") -> "descendantOf"
       [] has(ctx, "ChildOrSelfOfKeyword") -> "childOrSelfOf"
       [] has(ctx, "ChildOfKeyword") -> "childOf"
       [] has(ctx, "AncestorOrSelfOfKeyword") -> "ancestorOrSelfOf"
       [] has(ctx, "AncestorOfKeyword") -> "ancestorOf"
       [] has(ctx, "ParentOrSelfOfKeyword") -> "parentOrSelfOf"
       [] has(ctx, "ParentOfKeyword") -> "parentOf"
       [] has(ctx, "MemberOfKeyword") -> "memberOf"]

EclAstVisitor_eclConceptReference(ctx) ==
  [type |-> "ConceptReference",
   sctId |-> ctxTokens(ctx, "SctId")[1].image,
   term |-> IF has(ctx, "TermString")
            THEN trim(slice1(ctxTokens(ctx, "TermString")[1].image))
            ELSE <<>>]

\* a code written as AlternateIdCode matches none of the three branches:
\* the visitor throws
EclAstVisitor_alternateIdentifier(ctx) ==
  LET ids == ctxTokens(ctx, "Identifier")
  IN  IF has(ctx, "StringLiteral")
      THEN [type |-> "AlternateIdentifier", scheme |-> ids[1].image,
            code |-> slice1(ctxTokens(ctx, "StringLiteral")[1].image)]
      ELSE IF has(ctx, "SctId")
      THEN [type |-> "AlternateIdentifier", scheme |-> ids[1].image,
            code |-> ctxTokens(ctx, "SctId")[1].image]
      ELSE IF Len(ids) > 1
      THEN [type |-> "AlternateIdentifier", scheme |-> ids[1].image,
            code |-> ids[2].image]
      ELSE [type |-> "throw",
            message |-> "Unknown alternate identifier code type"]

EclAstVisitor_comparator(ctx) ==
  CASE has(ctx, "Equals") -> "="
    [] has(ctx, "NotEquals") -> "!="
    [] has(ctx, "LessThanOrEquals") -> "<="
    [] has(ctx, "GreaterThanOrEquals") -> ">="
    [] has(ctx, "DescendantOf") -> "<"
    [] has(ctx, "AncestorOf") -> ">"

\* tokens sorted by start offset: the first is min, the second is max
EclAstVisitor_cardinality(ctx) ==
  LET bounds == SelectSeq(ctx.tokens,
                             LAMBDA t : t.key \in {"Integer", "Wildcard"})
      lo == IF bounds[1].startOffset <= bounds[2].startOffset
            THEN 1 ELSE 2
      bound(t) == IF t.key = "Wildcard" THEN <<"*">> ELSE parseInt(t.image)
  IN  [type |-> "Cardinality", min |-> bound(bounds[lo]),
       max |-> bound(bounds[3 - lo])]

\* the value of a number written after '#'
EclAstVisitor_numericValue(ctx) ==
  [type |-> "NumberValue", value |-> parseInt(ctx.tokens[1].image)]

EclAstVisitor_termFilter(ctx) ==
  LET lits == ctxTokens(ctx, "StringLiteral")
  IN  [type |-> "TermFilter",
       operator |-> IF has(ctx, "Wild") THEN "wild"
                    ELSE IF has(ctx, "Match") THEN "match" ELSE "",
       values |-> [i \in DOMAIN lits |-> slice1(lits[i].image)]]

EclAstVisitor_languageFilter(ctx) ==
  [type |-> "LanguageFilter", value |-> ctxTokens(ctx, "DialectAlias")[1].image]

\* a keyword value is a string, any other value a ConceptReference
Keyword(word) == [type |-> "string", value |-> word]

EclAstVisitor_typeFilter(ctx) ==
  [type |-> "TypeFilter",
   value |-> IF has(ctx, "Preferred") THEN Keyword(<<"P", "R", "E", "F", "E", "R", "R", "E", "D">>)
             ELSE IF has(ctx, "Acceptable") THEN Keyword(<<"A", "C", "C", "E", "P", "T", "A", "B", "L", "E">>)
             ELSE EclAstVisitor_eclConceptReference(
                    ctxNodes(ctx, "eclConceptReference")[1])]

EclAstVisitor_dialectFilter(ctx) ==
  [type |-> "DialectFilter",
   value |-> IF has(ctx, "DialectAlias")
             THEN [type |-> "string",
                   value |-> ctxTokens(ctx, "DialectAlias")[1].image]
             ELSE EclAstVisitor_eclConceptReference(
                    ctxNodes(ctx, "eclConceptReference")[1]),
   acceptability |-> IF has(ctx, "Preferred") THEN "PREFERRED"
                     ELSE IF has(ctx, "Acceptable") THEN "ACCEPTABLE" ELSE ""]

EclAstVisitor_moduleFilter(ctx) ==
  [type |-> "ModuleFilter",
   value |-> EclAstVisitor_eclConceptReference(
               ctxNodes(ctx, "eclConceptReference")[1])]

EclAstVisitor_activeFilter(ctx) ==
  [type |-> "ActiveFilter", value |-> has(ctx, "True")]

EclAstVisitor_definitionStatusFilter(ctx) ==
  [type |-> "DefinitionStatusFilter",
   value |-> IF has(ctx, "Primitive") THEN Keyword(<<"P", "R", "I", "M", "I", "T", "I", "V", "E">>)
             ELSE IF has(ctx, "Defined") THEN Keyword(<<"D", "E", "F", "I", "N", "E", "D">>)
             ELSE EclAstVisitor_eclConceptReference(
                    ctxNodes(ctx, "eclConceptReference")[1])]

EclAstVisitor_filter(ctx) ==
  LET sub == ctx.children[1]
  IN  CASE sub.name = "termFilter" -> EclAstVisitor_termFilter(sub)
        [] sub.name = "languageFilter" -> EclAstVisitor_languageFilter(sub)
        [] sub.name = "typeFilter" -> EclAstVisitor_typeFilter(sub)
        [] sub.name = "dialectFilter" -> EclAstVisitor_dialectFilter(sub)
        [] sub.name = "moduleFilter" -> EclAstVisitor_moduleFilter(sub)
        [] sub.name = "activeFilter" -> EclAstVisitor_activeFilter(sub)
        [] sub.name = "definitionStatusFilter" ->
             EclAstVisitor_definitionStatusFilter(sub)

EclAstVisitor_filterExpressionConstraint(ctx) ==
  LET fs == ctxNodes(ctx, "filter")
  IN  [type |-> "Filter",
       constraints |-> [i \in DOMAIN fs |-> EclAstVisitor_filter(fs[i])],
       conjunctions |-> filterConjunctionsOf(ctx, Len(fs))]

EclAstVisitor_filterConstraint(ctx) ==
  EclAstVisitor_filterExpressionConstraint(
    ctxNodes(ctx, "filterExpressionConstraint")[1])

RECURSIVE visit(_)

\* the loop of expressionConstraint after k operators: a chain nested to
\* the left
RECURSIVE CompoundChain(_, _)
CompoundChain(ctx, k) ==
  IF k = 0 THEN visit(ctxNodes(ctx, "simpleOrRefinedExpression")[1])
  ELSE [type |-> "CompoundExpression",
        operator |-> EclAstVisitor_booleanOperator(
                       ctxNodes(ctx, "booleanOperator")[k]),
        left |-> CompoundChain(ctx, k - 1),
        right |-> visit(ctxNodes(ctx, "simpleOrRefinedExpression")[k + 1])]

EclAstVisitor_expressionConstraint(ctx) ==
  CompoundChain(ctx, Len(ctxNodes(ctx, "booleanOperator")))

EclAstVisitor_simpleOrRefinedExpression(ctx) ==
  IF has(ctx, "Colon") /\ hasNode(ctx, "eclRefinement")
  THEN [type |-> "RefinedExpression",
        expression |-> visit(ctxNodes(ctx, "subExpressionConstraint")[1]),
        refinement |-> visit(ctxNodes(ctx, "eclRefinement")[1])]
  ELSE visit(ctxNodes(ctx, "subExpressionConstraint")[1])

\* operator, focus concept and filters of a sub-expression or attribute name
SubExpressionOf(ctx) ==
  LET fcs == ctxNodes(ctx, "filterConstraint")
  IN  [type |-> "SubExpression",
       focusConcept |-> visit(ctxNodes(ctx, "eclFocusConcept")[1]),
       constraintOperator |->
         IF hasNode(ctx, "constraintOperator")
         THEN EclAstVisitor_constraintOperator(
                ctxNodes(ctx, "constraintOperator")[1])
         ELSE Undefined,
       filters |-> [i \in DOMAIN fcs |-> EclAstVisitor_filterConstraint(fcs[i])]]

EclAstVisitor_eclAttributeName(ctx) == SubExpressionOf(ctx)

\* with a dotted continuation the focus concept is the path from the
\* sub-expression through the attribute names
EclAstVisitor_subExpressionConstraint(ctx) ==
  LET names == ctxNodes(ctx, "eclAttributeName")
  IN  IF Len(names) = 0 THEN SubExpressionOf(ctx)
      ELSE [type |-> "SubExpression",
            focusConcept |->
              [type |-> "DottedAttributePath",
               base |-> SubExpressionOf(ctx),
               attributes |-> [i \in DOMAIN names |->
                                 EclAstVisitor_eclAttributeName(names[i])]],
            constraintOperator |-> Undefined,
            filters |-> <<>>]

EclAstVisitor_eclFocusConcept(ctx) ==
  IF hasNode(ctx, "eclConceptReference")
  THEN EclAstVisitor_eclConceptReference(ctx.children[1])
  ELSE IF has(ctx, "Wildcard")
  THEN [type |-> "WildcardConcept"]
  ELSE IF hasNode(ctx, "expressionConstraint")
  THEN [type |-> "NestedExpression", expression |-> visit(ctx.children[1])]
  ELSE EclAstVisitor_alternateIdentifier(ctx.children[1])

EclAstVisitor_eclRefinement(ctx) ==
  LET its == ctxNodes(ctx, "eclRefinementItem")
  IN  [type |-> "Refinement",
       items |-> [i \in DOMAIN its |-> visit(its[i])],
       conjunctions |-> conjunctionsOf(ctx, Len(its))]

EclAstVisitor_eclAttributeSet(ctx) ==
  LET its == ctxNodes(ctx, "subAttributeSet")
  IN  [items |-> [i \in DOMAIN its |-> visit(its[i])],
       conjunctions |-> conjunctionsOf(ctx, Len(its))]

EclAstVisitor_eclAttributeGroup(ctx) ==
  LET attrSet == EclAstVisitor_eclAttributeSet(ctx.children[1])
  IN  [type |-> "AttributeGroup", cardinality |-> Undefined,
       items |-> attrSet.items, conjunctions |-> attrSet.conjunctions]

EclAstVisitor_parenthesizedAttributeSet(ctx) ==
  LET attrSet == EclAstVisitor_eclAttributeSet(ctx.children[1])
  IN  [type |-> "NestedAttributeSet",
       items |-> attrSet.items, conjunctions |-> attrSet.conjunctions]

EclAstVisitor_subAttributeSet(ctx) == visit(ctx.children[1])

\* a cardinality written before the item is attached to the group or
\* attribute it prefixes
EclAstVisitor_eclRefinementItem(ctx) ==
  LET item == visit(ctx.children[Len(ctx.children)])
  IN  IF hasNode(ctx, "cardinality")
         /\ item.type \in {"AttributeGroup", "Attribute"}
      THEN [item EXCEPT !.cardinality =
              EclAstVisitor_cardinality(ctxNodes(ctx, "cardinality")[1])]
      ELSE item

EclAstVisitor_eclAttributeValue(ctx) ==
  IF hasNode(ctx, "subExpressionConstraint")
  THEN visit(ctx.children[1])
  ELSE IF has(ctx, "StringLiteral")
  THEN [type |-> "StringValue",
        value |-> slice1(ctxTokens(ctx, "StringLiteral")[1].image)]
  ELSE [type |-> "BooleanValue", value |-> has(ctx, "True")]

EclAstVisitor_eclAttribute(ctx) ==
  [type |-> "Attribute",
   cardinality |-> Undefined,
   reverseFlag |-> has(ctx, "ReverseOf") \/ has(ctx, "ReverseR"),
   name |-> EclAstVisitor_eclAttributeName(ctxNodes(ctx, "eclAttributeName")[1]),
   comparator |-> EclAstVisitor_comparator(ctxNodes(ctx, "comparator")[1]),
   value |-> IF hasNode(ctx, "numericValue")
             THEN EclAstVisitor_numericValue(ctxNodes(ctx, "numericValue")[1])
             ELSE EclAstVisitor_eclAttributeValue(
                    ctxNodes(ctx, "eclAttributeValue")[1])]

\* this.visit(node): the method named after the node's rule
visit(node) ==
  CASE node.name = "expressionConstraint" ->
         EclAstVisitor_expressionConstraint(node)
    [] node.name = "simpleOrRefinedExpression" ->
         EclAstVisitor_simpleOrRefinedExpression(node)
    [] node.name = "subExpressionConstraint" ->
         EclAstVisitor_subExpressionConstraint(node)
    [] node.name = "eclFocusConcept" -> EclAstVisitor_eclFocusConcept(node)
    [] node.name = "eclRefinement" -> EclAstVisitor_eclRefinement(node)
    [] node.name = "eclRefinementItem" -> EclAstVisitor_eclRefinementItem(node)
    [] node.name = "eclAttributeGroup" -> EclAstVisitor_eclAttributeGroup(node)
    [] node.name = "subAttributeSet" -> EclAstVisitor_subAttributeSet(node)
    [] node.name = "parenthesizedAttributeSet" ->
         EclAstVisitor_parenthesizedAttributeSet(node)
    [] node.name = "eclAttribute" -> EclAstVisitor_eclAttribute(node)
    [] OTHER -> [type |-> "throw"]

\* every node of type "throw" in the tree is an exception raised while the
\* tree was built
RECURSIVE Throws(_)
Throws(node) ==
  \/ node.type = "throw"
  \/ node.type = "CompoundExpression" /\ (Throws(node.left) \/ Throws(node.right))
  \/ node.type = "RefinedExpression"
       /\ (Throws(node.expression) \/ Throws(node.refinement))
  \/ node.type = "SubExpression" /\ Throws(node.focusConcept)
  \/ node.type = "NestedExpression" /\ Throws(node.expression)
  \/ node.type = "DottedAttributePath"
       /\ (Throws(node.base)
             \/ \E i \in DOMAIN node.attributes : Throws(node.attributes[i]))
  \/ node.type \in {"Refinement", "AttributeGroup", "NestedAttributeSet"}
       /\ \E i \in DOMAIN node.items : Throws(node.items[i])
  \/ node.type = "Attribute" /\ (Throws(node.name) \/ Throws(node.value))

\* buildAst(cst): the tree, or the exception the visitor raised
buildAst(cst) ==
  LET tree == visit(cst)
  IN  IF Throws(tree)
      THEN [thrown |-> TRUE, ast |-> Undefined,
            message |-> "Unknown alternate identifier code type"]
      ELSE [thrown |-> FALSE, ast |-> tree, message |-> ""]

\* ------------------------------------------------------------------------
\* Formatting rules (rules.ts)
\* ------------------------------------------------------------------------
defaultOptions == [indentSize |-> 2]

\* a count that takes every chain for one of two operands
chainOfTwoOperands(node) == 2

RECURSIVE countCompoundChainLength(_)
\* operands of the chain that ends in node: one for the right operand and
\* the operands of the left one
countCompoundChainLength(node) ==
  IF node.left.type = "CompoundExpression"
  THEN 1 + countCompoundChainLength(node.left)
  ELSE 2

RECURSIVE isComplex(_)
isComplex(node) ==
  CASE node.type = "CompoundExpression" ->
         \/ countCompoundChainLength(node) > 2
         \/ isComplex(node.left)
         \/ isComplex(node.right)
    [] node.type = "RefinedExpression" -> TRUE
    [] node.type = "SubExpression" ->
         \/ Len(node.filters) > 0
         \/ node.focusConcept.type = "NestedExpression"
    [] node.type = "NestedExpression" -> isComplex(node.expression)
    [] node.type = "AttributeGroup" -> Len(node.items) > 1
    [] node.type = "NestedAttributeSet" -> Len(node.items) > 1
    [] node.type = "Refinement" ->
         \/ Len(node.items) > 1
         \/ \E i \in DOMAIN node.items : node.items[i].type = "AttributeGroup"
    [] OTHER -> FALSE

\* a rule that keeps every refinement on one line
neverBreakRefinement(refinement) == FALSE

shouldBreakRefinement(refinement) ==
  \/ Len(refinement.items) > 1
  \/ \E i \in DOMAIN refinement.items :
       refinement.items[i].type = "AttributeGroup"
  \/ \E i \in DOMAIN refinement.items :
       /\ refinement.items[i].type = "AttributeGroup"
       /\ Len(refinement.items[i].items) > 1

\* a rule that keeps every attribute group on one line
neverBreakAttributeGroup(group) == FALSE

shouldBreakAttributeGroup(group) == Len(group.items) > 1

shouldBreakCompound(compound) ==
  isComplex(compound.left) \/ isComplex(compound.right)

\* ------------------------------------------------------------------------
\* Printer (printer.ts).  Text is a sequence of characters.  An exception
\* unwinds through every caller up to formatEcl's catch: it is carried as
\* one element of the text that no character equals, String(e).
\* ------------------------------------------------------------------------
UnknownNodeType == "Error: Unknown node type"

UndefinedNode ==
  "TypeError: Cannot read properties of undefined (reading 'type')"

Exceptions == {UnknownNodeType, UndefinedNode}

\* the characters of the operator, conjunction and keyword tags
str(tag) ==
  CASE tag = "AND" -> <<"A", "N", "D">>
    [] tag = "OR" -> <<"O", "R">>
    [] tag = "MINUS" -> <<"M", "I", "N", "U", "S">>
    [] tag = "," -> <<",">>
    [] tag = "=" -> <<"=">>
    [] tag = "!=" -> <<"!", "=">>
    [] tag = "<=" -> <<"<", "=">>
    [] tag = ">=" -> <<">", "=">>
    [] tag = "<" -> <<"<">>
    [] tag = "<<" -> <<"<", "<">>
    [] tag = "<!" -> <<"<", "!">>
    [] tag = "<<!" -> <<"<", "<", "!">>
    [] tag = ">" -> <<">">>
    [] tag = ">>" -> <<">", ">">>
    [] tag = ">!" -> <<">", "!">>
    [] tag = ">>!" -> <<">", ">", "!">>
    [] tag = "^" -> <<"^">>
    [] tag = "descendantOf" -> <<"d", "e", "s", "c", "e", "n", "d", "a", "n", "t", "O", "f">>
    [] tag = "descendantOrSelfOf" -> <<"d", "e", "s", "c", "e", "n", "d", "a", "n", "t", "O", "r", "S", "e", "l", "f", "O", "f">>
    [] tag = "childOf" -> <<"c", "h", "i", "l", "d", "O", "f">>
    [] tag = "childOrSelfOf" -> <<"c", "h", "i", "l", "d", "O", "r", "S", "e", "l", "f", "O", "f">>
    [] tag = "ancestorOf" -> <<"a", "n", "c", "e", "s", "t", "o", "r", "O", "f">>
    [] tag = "ancestorOrSelfOf" -> <<"a", "n", "c", "e", "s", "t", "o", "r", "O", "r", "S", "e", "l", "f", "O", "f">>
    [] tag = "parentOf" -> <<"p", "a", "r", "e", "n", "t", "O", "f">>
    [] tag = "parentOrSelfOf" -> <<"p", "a", "r", "e", "n", "t", "O", "r", "S", "e", "l", "f", "O", "f">>
    [] tag = "memberOf" -> <<"m", "e", "m", "b", "e", "r", "O", "f">>
    [] tag = "match" -> <<"m", "a", "t", "c", "h">>
    [] tag = "wild" -> <<"w", "i", "l", "d">>
    [] tag = "PREFERRED" -> <<"P", "R", "E", "F", "E", "R", "R", "E", "D">>
    [] tag = "ACCEPTABLE" -> <<"A", "C", "C", "E", "P", "T", "A", "B", "L", "E">>
    [] tag = "PRIMITIVE" -> <<"P", "R", "I", "M", "I", "T", "I", "V", "E">>
    [] tag = "DEFINED" -> <<"D", "E", "F", "I", "N", "E", "D">>

RECURSIVE join(_, _)
\* parts.join(sep)
join(parts, sep) ==
  IF Len(parts) = 0 THEN <<>>
  ELSE IF Len(parts) = 1 THEN parts[1]
  ELSE parts[1] \o sep \o join(Tail(parts), sep)

printConceptReference(node) ==
  IF Len(node.term) > 0
  THEN node.sctId \o <<" ", "|">> \o node.term \o <<"|">>
  ELSE node.sctId

\* /[^a-zA-Z0-9_-]/.test(node.code)
printAlternateIdentifier(node) ==
  IF \E i \in DOMAIN node.code : node.code[i] \notin AlphaNum \cup {"_", "-"}
  THEN node.scheme \o <<"#">> \o <<"\"">> \o node.code \o <<"\"">>
  ELSE node.scheme \o <<"#">> \o node.code

\* an operator printed as it is tagged, without the switch to brief syntax
printOperatorAsTagged(node) == str(node.operator)

printConstraintOperator(node) ==
  CASE node.operator = "descendantOf" -> <<"<">>
    [] node.operator = "descendantOrSelfOf" -> <<"<", "<">>
    [] node.operator = "childOf" -> <<"<", "!">>
    [] node.operator = "childOrSelfOf" -> <<"<", "<", "!">>
    [] node.operator = "ancestorOf" -> <<">">>
    [] node.operator = "ancestorOrSelfOf" -> <<">", ">">>
    [] node.operator = "parentOf" -> <<">", "!">>
    [] node.operator = "parentOrSelfOf" -> <<">", ">", "!">>
    [] node.operator = "memberOf" -> <<"^">>
    [] OTHER -> str(node.operator)

printCardinality(node) ==
  <<"[">> \o node.min \o <<".", ".">> \o node.max \o <<"]">>

\* a value that is a string prints as it is, a ConceptReference through
\* printConceptReference
printFilterValue(value) ==
  IF value.type = "string"
  THEN value.value
  ELSE printConceptReference(value)

printFilterConstraint(node) ==
  CASE node.type = "TermFilter" ->
         LET quotedValues == [i \in DOMAIN node.values |->
                                <<"\"">> \o node.values[i] \o <<"\"">>]
             valueStr == IF Len(node.values) > 1
                         THEN <<"(">> \o join(quotedValues, <<" ">>) \o <<")">>
                         ELSE quotedValues[1]
         IN  IF node.operator # ""
             THEN <<"t", "e", "r", "m", " ", "=", " ">> \o str(node.operator) \o <<":">> \o valueStr
             ELSE <<"t", "e", "r", "m", " ", "=", " ">> \o valueStr
    [] node.type = "LanguageFilter" -> <<"l", "a", "n", "g", "u", "a", "g", "e", " ", "=", " ">> \o node.value
    [] node.type = "TypeFilter" -> <<"t", "y", "p", "e", " ", "=", " ">> \o printFilterValue(node.value)
    [] node.type = "DialectFilter" ->
         <<"d", "i", "a", "l", "e", "c", "t", " ", "=", " ">> \o printFilterValue(node.value)
           \o (IF node.acceptability # ""
               THEN <<" ", "(">> \o str(node.acceptability) \o <<")">> ELSE <<>>)
    [] node.type = "ModuleFilter" ->
         <<"m", "o", "d", "u", "l", "e", "I", "d", " ", "=", " ">> \o printConceptReference(node.value)
    [] node.type = "ActiveFilter" ->
         <<"a", "c", "t", "i", "v", "e", " ", "=", " ">> \o (IF node.value THEN <<"t", "r", "u", "e">> ELSE <<"f", "a", "l", "s", "e">>)
    [] node.type = "DefinitionStatusFilter" ->
         <<"d", "e", "f", "i", "n", "i", "t", "i", "o", "n", "S", "t", "a", "t", "u", "s", "I", "d", " ", "=", " ">> \o printFilterValue(node.value)
    [] OTHER -> <<UnknownNodeType>>

printFilter(node) ==
  LET constraints == [i \in DOMAIN node.constraints |->
                        printFilterConstraint(node.constraints[i])]
      piece(i) == IF i = 1 THEN constraints[1]
                  ELSE <<" ">> \o (IF i - 1 <= Len(node.conjunctions)
                                 THEN str(node.conjunctions[i - 1])
                                 ELSE <<"A", "N", "D">>)
                         \o <<" ">> \o constraints[i]
  IN  <<"{", "{", " ">> \o join([i \in DOMAIN constraints |-> piece(i)], <<>>) \o <<" ", "}", "}">>

\* node.conjunctions[i] || ","
conjunctionAt(node, i) ==
  IF i <= Len(node.conjunctions) THEN node.conjunctions[i] ELSE ","

\* the separator after an item on one line, and at the end of a line
inlineSeparator(conj) ==
  IF conj = "," THEN <<",", " ">> ELSE <<" ">> \o str(conj) \o <<" ">>

lineSeparator(conj) ==
  IF conj = "," THEN <<",", "\n">> ELSE <<" ">> \o str(conj) \o <<"\n">>

RECURSIVE print(_, _, _, _)

\* a compound printed with its operator on a line of its own
printCompoundOperatorAlone(node, options, indent, column) ==
  print(node.left, options, indent, column)
    \o <<"\n">> \o repeat(" ", indent) \o str(node.operator)
    \o <<"\n">> \o repeat(" ", indent)
    \o print(node.right, options, indent, indent)

printCompound(node, options, indent, column) ==
  LET shouldBreak == shouldBreakCompound(node)
      leftStr == print(node.left, options, indent, column)
      spaces == repeat(" ", indent)
      operator == str(node.operator)
      parenColumn == indent + Len(operator)
      contentIndent == parenColumn + options.indentSize
  IN  IF shouldBreak
      THEN IF /\ node.right.type = "SubExpression"
              /\ node.right.constraintOperator.type = "undefined"
              /\ Len(node.right.filters) = 0
              /\ node.right.focusConcept.type = "NestedExpression"
           THEN leftStr \o <<"\n">> \o spaces \o operator \o <<"(", "\n">>
                  \o repeat(" ", contentIndent)
                  \o print(node.right.focusConcept.expression, options,
                           contentIndent, contentIndent)
                  \o <<"\n">> \o repeat(" ", parenColumn) \o <<")">>
           ELSE leftStr \o <<"\n">> \o spaces \o operator \o <<" ">>
                  \o print(node.right, options, indent,
                           indent + Len(operator) + 1)
      ELSE leftStr \o <<" ">> \o operator \o <<" ">>
             \o print(node.right, options, indent,
                      column + Len(leftStr) + 1 + Len(operator) + 1)

RECURSIVE printItems(_, _, _, _, _, _)
\* the items from the i-th on, on one line, each printed at the column the
\* items and conjunctions before it leave
printItems(node, i, options, indent, column, viaPrint) ==
  LET item == node.items[i]
      itemStr == IF viaPrint \/ item.type = "Attribute"
                 THEN print(item, options, indent, column)
                 ELSE <<UndefinedNode>>
      conjStr == inlineSeparator(conjunctionAt(node, i))
  IN  IF i = Len(node.items) THEN itemStr
      ELSE itemStr \o conjStr
             \o printItems(node, i + 1, options, indent,
                           column + Len(itemStr) + Len(conjStr), viaPrint)

\* the items one per line, each after the given spaces, the conjunction
\* ending the line before
printLines(node, options, indent, viaPrint) ==
  LET spaces == repeat(" ", indent)
      part(i) == spaces \o (IF viaPrint \/ node.items[i].type = "Attribute"
                            THEN print(node.items[i], options, indent, indent)
                            ELSE <<UndefinedNode>>)
      piece(i) == IF i = 1 THEN part(1)
                  ELSE lineSeparator(conjunctionAt(node, i - 1)) \o part(i)
  IN  join([i \in DOMAIN node.items |-> piece(i)], <<>>)

printRefinement(node, options, indent, column) ==
  IF shouldBreakRefinement(node)
  THEN printLines(node, options, indent, TRUE)
  ELSE printItems(node, 1, options, indent, column, TRUE)

\* a refined expression that is broken only when the indent is wider than
\* one space
printRefinedByIndentSize(node, options, indent, column) ==
  LET exprStr == print(node.expression, options, indent, column)
      nextIndent == indent + options.indentSize
  IN  IF shouldBreakRefinement(node.refinement) /\ options.indentSize > 1
      THEN exprStr \o <<":", "\n">>
             \o printRefinement(node.refinement, options, nextIndent, nextIndent)
      ELSE exprStr \o <<":", " ">>
             \o printRefinement(node.refinement, options, indent,
                                column + Len(exprStr) + 2)

printRefined(node, options, indent, column) ==
  LET exprStr == print(node.expression, options, indent, column)
      nextIndent == indent + options.indentSize
  IN  IF shouldBreakRefinement(node.refinement)
      THEN exprStr \o <<":", "\n">>
             \o printRefinement(node.refinement, options, nextIndent, nextIndent)
      ELSE exprStr \o <<":", " ">>
             \o printRefinement(node.refinement, options, indent,
                                column + Len(exprStr) + 2)

printSubExpression(node, options, indent, column) ==
  LET op == IF node.constraintOperator.type = "undefined" THEN <<>>
            ELSE printConstraintOperator(node.constraintOperator) \o <<" ">>
      focusStr == print(node.focusConcept, options, indent, column + Len(op))
      filterStrs == [i \in DOMAIN node.filters |->
                       <<" ">> \o printFilter(node.filters[i])]
  IN  op \o focusStr \o join(filterStrs, <<>>)

printNestedExpression(node, options, indent, column) ==
  LET innerStartsWithParen ==
        /\ node.expression.type = "SubExpression"
        /\ node.expression.constraintOperator.type = "undefined"
        /\ Len(node.expression.filters) = 0
        /\ node.expression.focusConcept.type = "NestedExpression"
      contentIndent == IF innerStartsWithParen THEN column + 1
                       ELSE column + options.indentSize
  IN  IF ~isComplex(node.expression)
      THEN <<"(">> \o print(node.expression, options, indent, column + 1) \o <<")">>
      ELSE <<"(", "\n">> \o repeat(" ", contentIndent)
             \o print(node.expression, options, contentIndent, contentIndent)
             \o <<"\n">> \o repeat(" ", column) \o <<")">>

\* the attributes of a group are printed by printAttribute itself
printAttributeGroup(node, options, indent, column) ==
  LET cardinalityStr == IF node.cardinality.type = "undefined" THEN <<>>
                        ELSE printCardinality(node.cardinality) \o <<" ">>
      innerIndent == indent + options.indentSize
  IN  IF shouldBreakAttributeGroup(node)
      THEN cardinalityStr \o <<"{", "\n">>
             \o printLines(node, options, innerIndent, FALSE)
             \o <<"\n">> \o repeat(" ", indent) \o <<"}">>
      ELSE cardinalityStr \o <<"{", " ">>
             \o printItems(node, 1, options, indent,
                           column + Len(cardinalityStr) + 2, FALSE)
             \o <<" ", "}">>

printAttribute(node, options, indent, column) ==
  LET card == IF node.cardinality.type = "undefined" THEN <<>>
              ELSE printCardinality(node.cardinality) \o <<" ">>
      flag == IF node.reverseFlag THEN <<"R", " ">> ELSE <<>>
      nameStr == print(node.name, options, indent,
                       column + Len(card) + Len(flag))
      cmp == <<" ">> \o str(node.comparator) \o <<" ">>
  IN  card \o flag \o nameStr \o cmp
        \o print(node.value, options, indent,
                 column + Len(card) + Len(flag) + Len(nameStr) + Len(cmp))

RECURSIVE printPath(_, _, _, _, _)
\* the chained attributes from the i-th on
printPath(node, i, options, indent, column) ==
  IF i > Len(node.attributes) THEN <<>>
  ELSE LET attrStr == print(node.attributes[i], options, indent, column + 3)
       IN  <<" ", ".", " ">> \o attrStr
             \o printPath(node, i + 1, options, indent,
                          column + 3 + Len(attrStr))

printDottedAttributePath(node, options, indent, column) ==
  LET base == print(node.base, options, indent, column)
  IN  base \o printPath(node, 1, options, indent, column + Len(base))

print(node, options, indent, column) ==
  CASE node.type = "CompoundExpression" ->
         printCompound(node, options, indent, column)
    [] node.type = "RefinedExpression" ->
         printRefined(node, options, indent, column)
    [] node.type = "SubExpression" ->
         printSubExpression(node, options, indent, column)
    [] node.type = "ConceptReference" -> printConceptReference(node)
    [] node.type = "WildcardConcept" -> <<"*">>
    [] node.type = "AlternateIdentifier" -> printAlternateIdentifier(node)
    [] node.type = "NestedExpression" ->
         printNestedExpression(node, options, indent, column)
    [] node.type = "ConstraintOperator" -> printConstraintOperator(node)
    [] node.type = "Refinement" ->
         printRefinement(node, options, indent, column)
    [] node.type = "AttributeGroup" ->
         printAttributeGroup(node, options, indent, column)
    [] node.type = "Attribute" -> printAttribute(node, options, indent, column)
    [] node.type = "DottedAttributePath" ->
         printDottedAttributePath(node, options, indent, column)
    [] node.type = "Cardinality" -> printCardinality(node)
    [] node.type = "Filter" -> printFilter(node)
    [] node.type = "StringValue" -> <<"\"">> \o node.value \o <<"\"">>
    [] node.type = "NumberValue" -> node.value
    [] node.type = "BooleanValue" ->
         IF node.value THEN <<"t", "r", "u", "e">> ELSE <<"f", "a", "l", "s", "e">>
    [] OTHER -> <<UnknownNodeType>>

\* ------------------------------------------------------------------------
\* The parser singleton (parser.ts: export const parser = new EclParser())
\* and the functions around it (parser.ts parse, index.ts parseEcl,
\* format.ts formatEcl).  A function that reads and writes the singleton
\* takes its state and returns the new one.
\* ------------------------------------------------------------------------
\* new EclParser()
NewParser == [input |-> <<>>, errors |-> <<>>]

\* an input setter that would leave the recorded errors in place
SetParserInputOnly(p, tokens) == [input |-> tokens, errors |-> p.errors]

\* parser.input = tokens: the setter resets the parser, its errors included
SetParserInput(p, tokens) == [input |-> tokens, errors |-> <<>>]

\* parser.expressionConstraint(): parses parser.input and records the
\* errors of the run in parser.errors
InvokeRule(p) ==
  LET r == RunGrammar(p.input)
  IN  [thrown |-> r.thrown, cst |-> r.cst,
       parser |-> [p EXCEPT !.errors = @ \o (IF r.thrown THEN <<>> ELSE r.errors)]]

\* a parser that would report no errors
noParserErrors(p) == <<>>

\* reading parser.errors
parserErrors(p) == p.errors

\* parse(tokens)
parse(p, tokens) ==
  LET r == InvokeRule(SetParserInput(p, tokens))
  IN  [thrown |-> r.thrown, cst |-> r.cst, errors |-> parserErrors(r.parser),
       parser |-> r.parser]

\* a value of type string | null
null == [type |-> "null"]

String(s) == [type |-> "string", value |-> s]

\* what a call of formatEcl ends with: a returned result or an exception
\* that leaves the call
Return(formatted, error) ==
  [kind |-> "return", formatted |-> formatted, error |-> error]

Throw_(e) == [kind |-> "throw", formatted |-> null, error |-> String(e)]

\* parseEcl(input)
parseEcl(p, input) ==
  LET lexResult == tokenize(input)
      parseResult == parse(p, lexResult.tokens)
      built == buildAst(parseResult.cst)
  IN  IF Len(lexResult.errors) > 0
      THEN [thrown |-> FALSE, ast |-> Undefined, errors |-> lexResult.errors,
            parser |-> p]
      ELSE IF parseResult.thrown
      THEN [thrown |-> TRUE, ast |-> Undefined, errors |-> <<StackOverflow>>,
            parser |-> parseResult.parser]
      ELSE IF Len(parseResult.errors) > 0
      THEN [thrown |-> FALSE, ast |-> Undefined, errors |-> parseResult.errors,
            parser |-> parseResult.parser]
      ELSE IF built.thrown
      THEN [thrown |-> FALSE, ast |-> Undefined,
            errors |-> <<[stage |-> "visitor", message |-> built.message,
                          offset |-> -1]>>,
            parser |-> parseResult.parser]
      ELSE [thrown |-> FALSE, ast |-> built.ast, errors |-> <<>>,
            parser |-> parseResult.parser]

\* a result that keeps a text beside the error
formatResultWithText(result, options) ==
  IF Len(result.errors) > 0 \/ result.ast.type = "undefined"
  THEN Return(String(<<>>), String("Parse error"))
  ELSE Return(String(print(result.ast, options, 0, 0)), null)

\* formatEcl after parseEcl returned: an error result if there are errors
\* or no tree, else the printed tree, an exception of the printer caught
formatResult(result, options) ==
  LET formatted == print(result.ast, options, 0, 0)
      raised == {i \in DOMAIN formatted : formatted[i] \in Exceptions}
  IN  IF Len(result.errors) > 0
      THEN Return(null, String(IF result.errors[1].message = ""
                               THEN "Parse error"
                               ELSE result.errors[1].message))
      ELSE IF result.ast.type = "undefined"
      THEN Return(null, String("Parse error"))
      ELSE IF raised = {} THEN Return(String(formatted), null)
      ELSE Return(null, String(formatted[Min(raised)]))

\* formatEcl(text, options) run from parser state p
formatEclFrom(p, text, options) ==
  LET trimmed == trim(text)
      result == parseEcl(p, trimmed)
  IN  IF Len(trimmed) = 0 THEN Return(null, String("Empty input"))
      ELSE IF result.thrown THEN Throw_(result.errors[1].message)
      ELSE formatResult(result, options)

\* formatEcl(text, options) as the only call ever made
formatEcl(text, options) == formatEclFrom(NewParser, text, options)

\* ------------------------------------------------------------------------
\* Inputs.  Texts are put together from lexemes; the sets below are the
\* texts and options the calls are made with.
\* ------------------------------------------------------------------------
sp == <<" ">>

A == <<"1", "2", "3", "4", "5", "6">>

B == <<"2", "3", "4", "5", "6", "7">>

C == <<"3", "4", "5", "6", "7", "8">>

D == <<"4", "5", "6", "7", "8", "9">>

Star == <<"*">>

\* the nine hierarchical operators: brief form and long form
OperatorForms ==
  { [brief |-> <<"<">>, long |-> <<"d", "e", "s", "c", "e", "n", "d", "a", "n", "t", "O", "f">>],
    [brief |-> <<"<", "<">>, long |-> <<"d", "e", "s", "c", "e", "n", "d", "a", "n", "t", "O", "r", "S", "e", "l", "f", "O", "f">>],
    [brief |-> <<"<", "!">>, long |-> <<"c", "h", "i", "l", "d", "O", "f">>],
    [brief |-> <<"<", "<", "!">>, long |-> <<"c", "h", "i", "l", "d", "O", "r", "S", "e", "l", "f", "O", "f">>],
    [brief |-> <<">">>, long |-> <<"a", "n", "c", "e", "s", "t", "o", "r", "O", "f">>],
    [brief |-> <<">", ">">>, long |-> <<"a", "n", "c", "e", "s", "t", "o", "r", "O", "r", "S", "e", "l", "f", "O", "f">>],
    [brief |-> <<">", "!">>, long |-> <<"p", "a", "r", "e", "n", "t", "O", "f">>],
    [brief |-> <<">", ">", "!">>, long |-> <<"p", "a", "r", "e", "n", "t", "O", "r", "S", "e", "l", "f", "O", "f">>],
    [brief |-> <<"^">>, long |-> <<"m", "e", "m", "b", "e", "r", "O", "f">>] }

\* the conjunctions as written between items
Conjunctions == { <<",", " ">>, <<" ", "A", "N", "D", " ">>, <<" ", "O", "R", " ">> }

\* an attribute "name = *"
Attr(name) == name \o <<" ", "=", " ", "*">>

\* the logical keywords as written in some letter case, and in upper case
KeywordCases ==
  { [written |-> <<"a", "n", "d">>, upper |-> <<"A", "N", "D">>],
    [written |-> <<"A", "n", "d">>, upper |-> <<"A", "N", "D">>],
    [written |-> <<"A", "N", "D">>, upper |-> <<"A", "N", "D">>],
    [written |-> <<"o", "r">>, upper |-> <<"O", "R">>],
    [written |-> <<"o", "R">>, upper |-> <<"O", "R">>],
    [written |-> <<"O", "R">>, upper |-> <<"O", "R">>],
    [written |-> <<"m", "i", "n", "u", "s">>, upper |-> <<"M", "I", "N", "U", "S">>],
    [written |-> <<"M", "i", "n", "u", "s">>, upper |-> <<"M", "I", "N", "U", "S">>],
    [written |-> <<"M", "I", "N", "U", "S">>, upper |-> <<"M", "I", "N", "U", "S">>] }

\* pairs of operands, as formatEcl prints them
OperandPairs ==
  { [left |-> A, right |-> B],
    [left |-> <<"<", "<", " ", "1", "2", "3", "4", "5", "6">>, right |-> <<"<", "<", " ", "2", "3", "4", "5", "6", "7">>] }

Joined(o, keyword) == o.left \o sp \o keyword \o sp \o o.right

KeywordInputs ==
  {Joined(o, k.written) : o \in OperandPairs, k \in KeywordCases}

OperatorInputs ==
  {f.brief \o sp \o A : f \in OperatorForms}
    \cup {f.long \o sp \o A : f \in OperatorForms}

CompoundInputs ==
  { <<"<", "<", "1", "2", "3", "4", "5", "6", " ", "A", "N", "D", " ", "<", "<", "2", "3", "4", "5", "6", "7">>,
    <<"1", "2", "3", "4", "5", "6", " ", "a", "n", "d", " ", "2", "3", "4", "5", "6", "7">>,
    <<"1", "2", "3", "4", "5", "6", " ", "O", "R", " ", "2", "3", "4", "5", "6", "7">>,
    <<"1", "2", "3", "4", "5", "6", " ", "M", "I", "N", "U", "S", " ", "2", "3", "4", "5", "6", "7">>,
    <<"1", "2", "3", "4", "5", "6", " ", "A", "N", "D", " ", "2", "3", "4", "5", "6", "7", " ", "A", "N", "D", " ", "3", "4", "5", "6", "7", "8">>,
    <<"1", "2", "3", "4", "5", "6", " ", "O", "R", " ", "(", "2", "3", "4", "5", "6", "7", " ", "A", "N", "D", " ", "3", "4", "5", "6", "7", "8", ")">>,
    <<"(", "1", "2", "3", "4", "5", "6", ":", " ", "2", "3", "4", "5", "6", "7", " ", "=", " ", "*", ")", " ", "A", "N", "D", " ", "3", "4", "5", "6", "7", "8">>,
    <<"(", "1", "2", "3", "4", "5", "6", ":", " ", "2", "3", "4", "5", "6", "7", " ", "=", " ", "*", ")", " ", "A", "N", "D", " ", "(", "3", "4", "5", "6", "7", "8", ")">>,
    <<"1", "2", "3", "4", "5", "6", " ", "A", "N", "D", " ", "2", "3", "4", "5", "6", "7", " ", "A", "N", "D", " ", "(", "3", "4", "5", "6", "7", "8", " ", "O", "R", " ", "4", "5", "6", "7", "8", "9", ")">>,
    <<"(", "1", "2", "3", "4", "5", "6", ":", " ", "2", "3", "4", "5", "6", "7", " ", "=", " ", "*", ")", " ", "O", "R", " ", "(", "3", "4", "5", "6", "7", "8", ":", " ", "2", "3", "4", "5", "6", "7", " ", "=", " ", "*", ")", " ", "M", "I", "N", "U", "S", " ", "4", "5", "6", "7", "8", "9">>,
    <<"(", "*", ":", " ", "*", " ", "=", " ", "*", ")", " ", "A", "N", "D", " ", "<", " ", "(", "*", " ", "O", "R", " ", "*", ")">>,
    <<"*", " ", "A", "N", "D", " ", "(", "*", " ", "A", "N", "D", " ", "(", "*", ":", " ", "*", " ", "=", " ", "*", ")", ")">> }

RefinementInputs ==
  { <<"<", "<", " ", "1", "2", "3", "4", "5", "6", " ", "|", "C", "l", "i", "n", "i", "c", "a", "l", " ", "f", "i", "n", "d", "i", "n", "g", "|", ":", " ", "2", "3", "4", "5", "6", "7", " ", "=", " ", "<", "<", " ", "3", "4", "5", "6", "7", "8">>,
    <<"<", "<", "1", "2", "3", "4", "5", "6", ":", "2", "3", "4", "5", "6", "7", "=", "<", "<", "3", "4", "5", "6", "7", "8", ",", "4", "5", "6", "7", "8", "9", "=", "<", "<", "1", "2", "3", "4", "5", "6">>,
    <<"*", ":", " ", "1", "2", "3", "4", "5", "6", " ", "=", " ", "*", " ", "A", "N", "D", " ", "2", "3", "4", "5", "6", "7", " ", "=", " ", "*", " ", "O", "R", " ", "3", "4", "5", "6", "7", "8", " ", "=", " ", "*", " ", "O", "R", " ", "4", "5", "6", "7", "8", "9", " ", "=", " ", "*">> }
    \cup {Star \o <<":", " ">> \o Attr(A) \o c \o Attr(B) : c \in Conjunctions}
    \cup {Star \o <<":", " ">> \o Attr(A) \o c \o Attr(B) \o d \o Attr(C) :
            c \in Conjunctions, d \in Conjunctions}

GroupInputs ==
  { <<"*", ":", " ", "{", " ", "1", "2", "3", "4", "5", "6", " ", "=", " ", "*", " ", "}">>,
    <<"*", ":", " ", "{", " ", "1", "2", "3", "4", "5", "6", " ", "=", " ", "*", " ", "O", "R", " ", "2", "3", "4", "5", "6", "7", " ", "=", " ", "*", ",", " ", "3", "4", "5", "6", "7", "8", " ", "=", " ", "*", " ", "}">>,
    <<"*", ":", " ", "[", "1", ".", ".", "*", "]", " ", "{", " ", "R", " ", "1", "2", "3", "4", "5", "6", " ", "=", " ", "#", "0", "5", " ", "}">>,
    <<"*", ":", " ", "(", "1", "2", "3", "4", "5", "6", " ", "=", " ", "*", ")", ",", " ", "2", "3", "4", "5", "6", "7", " ", "=", " ", "*">>,
    <<"*", ":", " ", "[", "1", ".", ".", "*", "]", " ", "{", " ", "1", "2", "3", "4", "5", "6", " ", "=", " ", "*", ",", " ", "2", "3", "4", "5", "6", "7", " ", "=", " ", "*", " ", "}">>,
    <<"*", ":", " ", "{", " ", "1", "2", "3", "4", "5", "6", " ", "=", " ", "*", " ", "}", ",", " ", "{", " ", "2", "3", "4", "5", "6", "7", " ", "=", " ", "*", ",", " ", "3", "4", "5", "6", "7", "8", " ", "=", " ", "*", " ", "}">>,
    <<"*", ":", " ", "{", " ", "1", "2", "3", "4", "5", "6", " ", "=", " ", "(", "*", " ", "{", "{", " ", "a", "c", "t", "i", "v", "e", " ", "=", " ", "t", "r", "u", "e", " ", "}", "}", ")", " ", "}">>,
    <<"*", ":", " ", "{", " ", "1", "2", "3", "4", "5", "6", " ", "=", " ", "*", ",", " ", "2", "3", "4", "5", "6", "7", " ", "=", " ", "(", "*", " ", "{", "{", " ", "a", "c", "t", "i", "v", "e", " ", "=", " ", "t", "r", "u", "e", " ", "}", "}", ")", " ", "}">> }
    \cup {Star \o <<":", " ", "{", " ">> \o Attr(A) \o c \o Attr(B) \o <<" ", "}">> :
            c \in Conjunctions}

NestedInputs ==
  { <<"(", "1", "2", "3", "4", "5", "6", ")">>,
    <<"(", "(", "*", ")", ")">>,
    <<"(", "1", "2", "3", "4", "5", "6", " ", "A", "N", "D", " ", "2", "3", "4", "5", "6", "7", " ", "A", "N", "D", " ", "3", "4", "5", "6", "7", "8", ")">>,
    <<"(", "(", "*", ")", ")", ":", " ", "*", " ", "=", " ", "(", "(", "*", ")", ")">>,
    <<"*", ":", " ", "1", "2", "3", "4", "5", "6", " ", "=", " ", "(", "*", " ", "A", "N", "D", " ", "*", ")">>,
    <<"(", "(", "(", "(", "*", ")", ")", ")", ")">>,
    <<"(", "(", "(", "(", "(", "*", ")", ")", ")", ")", ")">> }

FilterInputs ==
  { <<"*", " ", "{", "{", " ", "t", "e", "r", "m", " ", "=", " ", "\"", "x", "\"", " ", "}", "}">>,
    <<"*", " ", "{", "{", " ", "t", "e", "r", "m", " ", "=", " ", "\"", "x", "\"", ",", " ", "a", "c", "t", "i", "v", "e", " ", "=", " ", "t", "r", "u", "e", " ", "}", "}">>,
    <<"*", " ", "{", "{", " ", "a", "c", "t", "i", "v", "e", " ", "=", " ", "t", "r", "u", "e", ",", " ", "a", "c", "t", "i", "v", "e", " ", "=", " ", "f", "a", "l", "s", "e", " ", "}", "}">>,
    <<"*", " ", "{", "{", " ", "t", "e", "r", "m", " ", "=", " ", "\"", "x", "\"", " ", "A", "N", "D", " ", "a", "c", "t", "i", "v", "e", " ", "=", " ", "t", "r", "u", "e", " ", "}", "}">>,
    <<"*", " ", "{", "{", " ", "t", "e", "r", "m", " ", "=", " ", "\"", "x", "\"", " ", "O", "R", " ", "a", "c", "t", "i", "v", "e", " ", "=", " ", "t", "r", "u", "e", ",", " ", "l", "a", "n", "g", "u", "a", "g", "e", " ", "=", " ", "e", "n", " ", "}", "}">> }

\* one constraint of each kind of filter, with the token of its keyword
FilterKinds ==
  { [keyword |-> "TermKeyword", constraint |-> <<"t", "e", "r", "m", " ", "=", " ", "\"", "x", "\"">>],
    [keyword |-> "Language", constraint |-> <<"l", "a", "n", "g", "u", "a", "g", "e", " ", "=", " ", "e", "n", "-", "U", "S">>],
    [keyword |-> "TypeKeyword", constraint |-> <<"t", "y", "p", "e", " ", "=", " ", "1", "2", "3", "4", "5", "6">>],
    [keyword |-> "Dialect", constraint |-> <<"d", "i", "a", "l", "e", "c", "t", " ", "=", " ", "e", "n", "-", "U", "S", " ", "(", "P", "R", "E", "F", "E", "R", "R", "E", "D", ")">>],
    [keyword |-> "ModuleId", constraint |-> <<"m", "o", "d", "u", "l", "e", "I", "d", " ", "=", " ", "1", "2", "3", "4", "5", "6">>],
    [keyword |-> "EffectiveTime", constraint |-> <<"e", "f", "f", "e", "c", "t", "i", "v", "e", "T", "i", "m", "e", " ", "=", " ", "\"", "2", "0", "1", "9", "0", "7", "3", "1", "\"">>],
    [keyword |-> "Active", constraint |-> <<"a", "c", "t", "i", "v", "e", " ", "=", " ", "t", "r", "u", "e">>],
    [keyword |-> "DefinitionStatusId",
     constraint |-> <<"d", "e", "f", "i", "n", "i", "t", "i", "o", "n", "S", "t", "a", "t", "u", "s", "I", "d", " ", "=", " ", "P", "R", "I", "M", "I", "T", "I", "V", "E">>] }

FilterOf(constraint) == <<"*", " ", "{", "{", " ">> \o constraint \o <<" ", "}", "}">>

FilterKindInputs == {FilterOf(k.constraint) : k \in FilterKinds}

\* what an attribute is prefixed with in the input, and whether that is a
\* reverse flag (R, r, or reverseOf in any letter case)
AttributePrefixes ==
  { [written |-> <<"R", " ">>, reverse |-> TRUE],
    [written |-> <<"r", " ">>, reverse |-> TRUE],
    [written |-> <<"r", "e", "v", "e", "r", "s", "e", "O", "f", " ">>, reverse |-> TRUE],
    [written |-> <<"R", "E", "V", "E", "R", "S", "E", "O", "F", " ">>, reverse |-> TRUE],
    [written |-> <<"x", " ">>, reverse |-> FALSE],
    [written |-> <<"f", "o", "o", " ">>, reverse |-> FALSE],
    [written |-> <<>>, reverse |-> FALSE] }

\* the cardinality written before an attribute, if any
AttributeCardinalities == { <<>>, <<"[", "1", ".", ".", "*", "]", " ">> }

Prefixed(card, prefix) == <<"*", ":", " ">> \o card \o prefix \o Attr(A)

PrefixInputs ==
  {Prefixed(card, p.written) : card \in AttributeCardinalities,
                               p \in AttributePrefixes}

FailingInputs ==
  { <<"<", "<", "<", " ", "i", "n", "v", "a", "l", "i", "d">>,
    <<"1", "2", "3", "4", "5", "6", " ", "$">>,
    <<"1", "2", "3", "4", "5", "6", " ", "%", " ", "$">>,
    <<"@", " ", "A", "N", "D">>,
    <<"1", "2", "3", "4", "5", "6", " ", "A", "N", "D">>,
    <<"1", "2", "3", "4", "5", "6", " ", "2", "3", "4", "5", "6", "7">>,
    <<>>,
    <<" ", " ">>,
    <<"\t", "\n", " ">> }

OtherInputs ==
  { <<" ", "1", "2", "3", "4", "5", "6", " ">>,
    <<"\n", " ", " ", "<", "<", " ", "1", "2", "3", "4", "5", "6", " ", "A", "N", "D", " ", "<", "<", " ", "2", "3", "4", "5", "6", "7", "\t">>,
    <<"X", "#", "\"", "a", " ", "b", "\"", " ", "M", "I", "N", "U", "S", " ", "Y", "#", "1", "2", "3", "4", "5", "6">> }

\* digit strings of 6, 7 and 18 digits
DigitStrings == { A, <<"1", "2", "3", "4", "5", "6", "7">>, <<"1", "2", "3", "4", "5", "6", "7", "8", "9", "0", "1", "2", "3", "4", "5", "6", "7", "8">> }

\* a dot with and without spaces around it
DotSpacings == { <<".">>, <<" ", ".">>, <<".", " ">>, <<" ", ".", " ">> }

\* two digit strings joined by a dot
Dotted(a, dot, b) == a \o dot \o b

DottedInputs ==
  {Dotted(a, dot, b) : a \in DigitStrings, dot \in DotSpacings, b \in DigitStrings}

\* decimal numbers, which have fewer than six digits after the dot
DecimalInputs == { <<"*", " ", ":", " ", "1", "2", "3", "4", "5", "6", " ", "=", " ", "#", "1", "2", ".", "5">>, <<"*", " ", ":", " ", "1", "2", "3", "4", "5", "6", " ", "=", " ", "#", "1", "2", "3", "4", "5", "6", ".", "1", "2", "3", "4", "5">> }

\* texts with the operators "<<!" and ".." in several places
PrecedenceInputs ==
  { <<"<", "<", "!", " ", "1", "2", "3", "4", "5", "6">>,
    <<"<", "<", "!", "1", "2", "3", "4", "5", "6", " ", "A", "N", "D", " ", "<", "<", "!", " ", "2", "3", "4", "5", "6", "7">>,
    <<"<", "<", "<", "!", " ", "1", "2", "3", "4", "5", "6">>,
    <<"<", "<", "!", "=", " ", "1", "2", "3", "4", "5", "6">>,
    <<"1", "2", "3", "4", "5", "6", " ", "$", "<", "<", "!", " ", "2", "3", "4", "5", "6", "7">>,
    <<"*", ":", " ", "[", "1", ".", ".", "3", "]", " ", "1", "2", "3", "4", "5", "6", " ", "=", " ", "*">>,
    <<"*", ":", " ", "[", "0", ".", ".", "*", "]", " ", "{", " ", "[", "1", ".", ".", "1", "]", " ", "1", "2", "3", "4", "5", "6", " ", "=", " ", "<", "<", "!", " ", "2", "3", "4", "5", "6", "7", " ", "}">>,
    <<"1", "2", "3", "4", "5", "6", ".", ".", "2", "3", "4", "5", "6", "7">>,
    <<"1", "2", "3", "4", "5", "6", " ", ".", ".", ".", " ", "2", "3", "4", "5", "6", "7">>,
    <<"1", ".", ".", "2">> }

\* alternate identifiers with codes written in each way the grammar has
AlternateIdInputs ==
  { <<"L", "O", "I", "N", "C", "#", "\"", "2", "3", "3", "9", "-", "0", "\"">>,
    <<"L", "O", "I", "N", "C", "#", "2", "3", "3", "9", "-", "0">>,
    <<"X", "#", "\"", "1", "2", "\"">>,
    <<"X", "#", "\"", "a", "b", "c", "\"">>,
    <<"X", "#", "a", "b", "c">>,
    <<"X", "#", "1", "2", "3", "4", "5", "6">> }

\* words that begin with the letters of a keyword, and a word that does not
SchemeNames ==
  { <<"O", "R", "P", "H", "A">>, <<"A", "n", "d", "r", "o", "i", "d">>, <<"m", "i", "n", "u", "s", "c", "u", "l", "e">>, <<"t", "e", "r", "m", "i", "n", "o", "l", "o", "g", "y">>, <<"t", "r", "u", "e", "n", "e", "s", "s">>,
    <<"L", "O", "I", "N", "C">> }

\* an alternate identifier of the scheme
OfScheme(name) == name \o <<"#", "1", "2", "3", "4", "5", "6">>

SchemeInputs == {OfScheme(name) : name \in SchemeNames}

Inputs ==
  SchemeInputs \cup AlternateIdInputs \cup PrecedenceInputs \cup DottedInputs \cup DecimalInputs \cup OperatorInputs \cup KeywordInputs \cup CompoundInputs \cup RefinementInputs \cup GroupInputs
    \cup NestedInputs \cup FilterInputs \cup FilterKindInputs \cup PrefixInputs \cup FailingInputs \cup OtherInputs

\* the texts of calls made after another call
Followups == { <<"<", "<", " ", "1", "2", "3", "4", "5", "6">>, <<"1", "2", "3", "4", "5", "6", " ", "A", "N", "D">>, <<"1", "2", "3", "4", "5", "6", " ", "$">> }

\* the texts of calls made in parallel
ParallelInputs == { A, <<"*", ":", " ", "2", "3", "4", "5", "6", "7", " ", "=", " ", "*">>, <<"1", "2", "3", "4", "5", "6", " ", "A", "N", "D">> }

MaxIndentSize == 2

Options == {[indentSize |-> n] : n \in 1..MaxIndentSize}

MaxCalls == 2

\* ------------------------------------------------------------------------
\* Calls of formatEcl.  A call goes through the statements of formatEcl,
\* parseEcl and parse in order; pc is the statement it is at, frame holds
\* its arguments and local variables, outcome what it ended with.  The
\* parser singleton is shared by all calls.  frame.stages lists the stages
\* the call has entered so far.
\* ------------------------------------------------------------------------
VARIABLES parser, pc, frame, outcome, calls, prev, editor, page

vars == <<parser, pc, frame, outcome, calls, prev, editor, page>>

Callers == {1, 2}

NoResult == [ast |-> Undefined, errors |-> <<>>]

NoFrame ==
  [text |-> <<>>, options |-> defaultOptions, again |-> FALSE,
   lexResult |-> [tokens |-> <<>>, errors |-> <<>>],
   cst |-> EmptyCst, result |-> NoResult, stages |-> <<>>]

NoOutcome == [kind |-> "none", formatted |-> null, error |-> null]

\* the last call that ended: its arguments, its outcome and its tree
NoCall ==
  [text |-> <<>>, options |-> defaultOptions, outcome |-> NoOutcome,
   ast |-> Undefined]

\* the editor: the open document, the configured indent size, the format
\* request made last (its kind, its range, the document it was made on,
\* whether its provider has yet to return), the result formatEcl gave the
\* provider, the edits the provider returned and the warning it showed
NoEditor ==
  [document |-> <<>>, indentSize |-> defaultOptions.indentSize,
   request |-> "none", range |-> [start |-> 0, end |-> 0], seen |-> <<>>,
   result |-> NoOutcome, edits |-> <<>>, warning |-> null, applied |-> FALSE,
   requests |-> 0, opened |-> 0, pending |-> FALSE]

\* the web page as it is loaded: the boxes empty, the error box hidden
NoPageError == [visible |-> FALSE, prefix |-> "", message |-> ""]

NoPage ==
  [input |-> <<>>, output |-> <<>>, error |-> NoPageError, clipboard |-> <<>>,
   ended |-> "none", pending |-> FALSE, clicks |-> 0, edits |-> 0]

Init ==
  /\ page = NoPage
  /\ editor = NoEditor
  /\ parser = NewParser
  /\ pc = [c \in Callers |-> "idle"]
  /\ frame = [c \in Callers |-> NoFrame]
  /\ outcome = [c \in Callers |-> NoOutcome]
  /\ calls = 0
  /\ prev = NoCall

\* formatEcl(text, options) is entered: text.trim() and the empty check
Enter(c, text, options, again) ==
  /\ pc[c] = "idle"
  /\ calls < MaxCalls
  /\ calls' = calls + 1
  /\ frame' = [frame EXCEPT ![c] = [NoFrame EXCEPT !.text = text,
                                                   !.options = options,
                                                   !.again = again]]
  /\ IF Len(trim(text)) = 0
     THEN /\ outcome' = [outcome EXCEPT ![c] = Return(null, String("Empty input"))]
          /\ pc' = [pc EXCEPT ![c] = "return"]
     ELSE /\ outcome' = [outcome EXCEPT ![c] = NoOutcome]
          /\ pc' = [pc EXCEPT ![c] = "tokenize"]
  /\ UNCHANGED <<page, editor, parser, prev>>

\* a caller formats a text
Call(c) ==
  \E text \in (IF calls = 0 THEN Inputs ELSE Followups), options \in Options :
    Enter(c, text, options, FALSE)

\* a caller formats the text the last call returned, with the same options
Reformat(c) ==
  /\ prev.outcome.kind = "return"
  /\ prev.outcome.error.type = "null"
  /\ Enter(c, prev.outcome.formatted.value, prev.options, TRUE)

\* callers that start in parallel
CallInParallel(c) ==
  \E text \in ParallelInputs : Enter(c, text, defaultOptions, FALSE)

\* a parseEcl that would go on to the parser whatever the tokenizer reports
TokenizeAndGoOn(c) ==
  /\ pc[c] = "tokenize"
  /\ frame' = [frame EXCEPT ![c].lexResult = tokenize(trim(frame[c].text)),
                            ![c].stages = Append(@, "tokenize")]
  /\ pc' = [pc EXCEPT ![c] = "input"]
  /\ UNCHANGED <<page, editor, parser, outcome, calls, prev>>

\* parseEcl: const lexResult = tokenize(input), and the return on errors
Tokenize(c) ==
  /\ pc[c] = "tokenize"
  /\ LET lexResult == tokenize(trim(frame[c].text))
     IN  IF Len(lexResult.errors) > 0
         THEN /\ frame' = [frame EXCEPT
                             ![c].lexResult = lexResult,
                             ![c].result = [ast |-> Undefined,
                                            errors |-> lexResult.errors],
                             ![c].stages = Append(@, "tokenize")]
              /\ pc' = [pc EXCEPT ![c] = "format"]
         ELSE /\ frame' = [frame EXCEPT ![c].lexResult = lexResult,
                                        ![c].stages = Append(@, "tokenize")]
              /\ pc' = [pc EXCEPT ![c] = "input"]
  /\ UNCHANGED <<page, editor, parser, outcome, calls, prev>>

\* parse: parser.input = tokens
AssignInput(c) ==
  /\ pc[c] = "input"
  /\ parser' = SetParserInput(parser, frame[c].lexResult.tokens)
  /\ frame' = [frame EXCEPT ![c].stages = Append(@, "parse")]
  /\ pc' = [pc EXCEPT ![c] = "rules"]
  /\ UNCHANGED <<page, editor, outcome, calls, prev>>

\* parse: const cst = parser.expressionConstraint(); an exception of the
\* run leaves parse, parseEcl and formatEcl
RunRules(c) ==
  /\ pc[c] = "rules"
  /\ LET r == InvokeRule(parser)
     IN  /\ parser' = r.parser
         /\ IF r.thrown
            THEN /\ outcome' = [outcome EXCEPT ![c] = Throw_(StackOverflow.message)]
                 /\ pc' = [pc EXCEPT ![c] = "return"]
                 /\ frame' = frame
            ELSE /\ frame' = [frame EXCEPT ![c].cst = r.cst]
                 /\ pc' = [pc EXCEPT ![c] = "errors"]
                 /\ outcome' = outcome
  /\ UNCHANGED <<page, editor, calls, prev>>

\* parse: return { cst, errors: parser.errors }, and parseEcl's return on
\* errors
ReadErrors(c) ==
  /\ pc[c] = "errors"
  /\ LET errors == parserErrors(parser)
     IN  IF Len(errors) > 0
         THEN /\ frame' = [frame EXCEPT ![c].result = [ast |-> Undefined,
                                                       errors |-> errors]]
              /\ pc' = [pc EXCEPT ![c] = "format"]
         ELSE /\ frame' = frame
              /\ pc' = [pc EXCEPT ![c] = "build"]
  /\ UNCHANGED <<page, editor, parser, outcome, calls, prev>>

\* parseEcl: the try block around buildAst(parseResult.cst)
BuildAst(c) ==
  /\ pc[c] = "build"
  /\ LET built == buildAst(frame[c].cst)
     IN  frame' = [frame EXCEPT
                     ![c].result =
                       IF built.thrown
                       THEN [ast |-> Undefined,
                             errors |-> <<[stage |-> "visitor",
                                           message |-> built.message,
                                           offset |-> -1]>>]
                       ELSE [ast |-> built.ast, errors |-> <<>>],
                     ![c].stages = Append(@, "buildAst")]
  /\ pc' = [pc EXCEPT ![c] = "format"]
  /\ UNCHANGED <<page, editor, parser, outcome, calls, prev>>

\* formatEcl: the error check and the try block around print
Format(c) ==
  /\ pc[c] = "format"
  /\ outcome' = [outcome EXCEPT ![c] = formatResult(frame[c].result,
                                                    frame[c].options)]
  /\ frame' = [frame EXCEPT ![c].stages =
                 IF Len(frame[c].result.errors) > 0
                    \/ frame[c].result.ast.type = "undefined"
                 THEN @ ELSE Append(@, "print")]
  /\ pc' = [pc EXCEPT ![c] = "return"]
  /\ UNCHANGED <<page, editor, parser, calls, prev>>

\* the call has ended and its caller takes the outcome
Finish(c) ==
  /\ pc[c] = "return"
  /\ prev' = [text |-> frame[c].text, options |-> frame[c].options,
              outcome |-> outcome[c], ast |-> frame[c].result.ast]
  /\ pc' = [pc EXCEPT ![c] = "idle"]
  /\ frame' = [frame EXCEPT ![c] = NoFrame]
  /\ outcome' = [outcome EXCEPT ![c] = NoOutcome]
  /\ UNCHANGED <<page, editor, parser, calls>>

\* one caller, one call after the other
Next ==
  \/ Call(1)
  \/ Reformat(1)
  \/ Tokenize(1)
  \/ AssignInput(1)
  \/ RunRules(1)
  \/ ReadErrors(1)
  \/ BuildAst(1)
  \/ Format(1)
  \/ Finish(1)

Spec == Init /\ [][Next]_vars

\* two callers whose calls interleave statement by statement
NextPar ==
  \E c \in Callers :
    \/ CallInParallel(c)
    \/ Tokenize(c)
    \/ AssignInput(c)
    \/ RunRules(c)
    \/ ReadErrors(c)
    \/ BuildAst(c)
    \/ Format(c)

SpecPar == Init /\ [][NextPar]_vars

\* ------------------------------------------------------------------------
\* Editor providers (format.ts).  The editor holds a document; on a format
\* request it calls a provider, which calls formatEcl on the text it is
\* given and returns edits; the editor applies the edits to the document.
\* The provider's call of formatEcl is the call of caller 1.
\* ------------------------------------------------------------------------
\* the documents opened in the editor
Documents ==
  { <<"<", "<", " ", "1", "2", "3", "4", "5", "6">>,
    <<"1", "2", "3", "4", "5", "6", " ", "a", "n", "d">>,
    <<"*", " ", "o", "r", " ", "*", " ", "$">>,
    <<"*", ":", "*", "=", "*", ",", "*", "=", "*">>,
    <<" ", " ">> }

\* documents opened, and requests made on one document
MaxDocuments == 1

MaxRequests == 2

\* document.getText(range); offsets from 0, the end exclusive
getText(document, range) == SubSeq(document, range.start + 1, range.end)

\* the range of the whole document
fullRange(document) == [start |-> 0, end |-> Len(document)]

\* the selections: the ranges from the start or to the end of the document
Ranges(document) ==
  {[start |-> 0, end |-> b] : b \in 0..Len(document)}
    \cup {[start |-> a, end |-> Len(document)] : a \in 0..Len(document)}

\* edits that would replace the range whatever formatEcl returned
alwaysReplace(range, result) ==
  << [range |-> range,
      newText |-> IF result.formatted.type = "null" THEN <<>>
                  ELSE result.formatted.value] >>

\* the edits a provider returns: none when formatted is null, else the
\* replacement of the range by the formatted text
editsFor(range, result) ==
  IF result.formatted.type = "null" THEN <<>>
  ELSE << [range |-> range, newText |-> result.formatted.value] >>

\* a document after an edit
replace(document, edit) ==
  SubSeq(document, 1, edit.range.start) \o edit.newText
    \o SubSeq(document, edit.range.end + 1, Len(document))

\* the user opens a document and has an indent size configured
OpenDocument ==
  \E text \in Documents, n \in 1..MaxIndentSize :
    /\ editor.opened < MaxDocuments
    /\ ~editor.pending
    /\ editor' = [NoEditor EXCEPT !.document = text, !.indentSize = n,
                                  !.opened = editor.opened + 1]
    /\ UNCHANGED <<page, parser, pc, frame, outcome, calls, prev>>

\* the user asks for the document or a selection to be formatted
Request(kind, range) ==
  /\ Len(editor.document) > 0
  /\ ~editor.pending
  /\ editor.request = "none" \/ editor.applied
  /\ editor.requests < MaxRequests
  /\ editor' = [editor EXCEPT !.request = kind, !.range = range,
                              !.seen = editor.document,
                              !.result = NoOutcome, !.edits = <<>>,
                              !.warning = null, !.applied = FALSE,
                              !.pending = TRUE, !.requests = @ + 1]
  /\ UNCHANGED <<page, parser, pc, frame, outcome, calls, prev>>

FormatDocument == Request("document", fullRange(editor.document))

FormatSelection ==
  \E range \in Ranges(editor.document) : Request("range", range)

\* a provider is called: it reads the configured indent size and the text
\* of the document or of the range, and calls formatEcl
ProviderCallsFormatEcl ==
  /\ editor.pending
  /\ Enter(1, getText(editor.document, editor.range),
           [indentSize |-> editor.indentSize], FALSE)

\* formatEcl has ended: the provider returns its edits, and no edits if
\* an exception left formatEcl
ProviderReturns(kind, showWarning) ==
  /\ editor.pending
  /\ editor.request = kind
  /\ pc[1] = "return"
  /\ editor' = [editor EXCEPT
                  !.result = outcome[1],
                  !.edits = IF outcome[1].kind = "throw" THEN <<>>
                            ELSE editsFor(editor.range, outcome[1]),
                  !.warning = IF /\ showWarning
                                 /\ outcome[1].kind = "return"
                                 /\ outcome[1].formatted.type = "null"
                              THEN outcome[1].error ELSE null,
                  !.pending = FALSE]
  /\ prev' = [text |-> frame[1].text, options |-> frame[1].options,
              outcome |-> outcome[1], ast |-> frame[1].result.ast]
  /\ pc' = [pc EXCEPT ![1] = "idle"]
  /\ frame' = [frame EXCEPT ![1] = NoFrame]
  /\ outcome' = [outcome EXCEPT ![1] = NoOutcome]
  /\ UNCHANGED <<page, parser, calls>>

\* EclDocumentFormattingProvider.provideDocumentFormattingEdits
provideDocumentFormattingEdits == ProviderReturns("document", TRUE)

\* EclDocumentRangeFormattingProvider.provideDocumentRangeFormattingEdits
provideDocumentRangeFormattingEdits == ProviderReturns("range", FALSE)

\* the editor applies the edits the provider returned
ApplyEdits ==
  /\ editor.request # "none"
  /\ ~editor.pending
  /\ ~editor.applied
  /\ editor' = [editor EXCEPT
                  !.document = IF Len(editor.edits) = 0 THEN @
                               ELSE replace(@, editor.edits[1]),
                  !.applied = TRUE]
  /\ UNCHANGED <<page, parser, pc, frame, outcome, calls, prev>>

NextEditor ==
  \/ OpenDocument
  \/ FormatDocument
  \/ FormatSelection
  \/ ProviderCallsFormatEcl
  \/ Tokenize(1)
  \/ AssignInput(1)
  \/ RunRules(1)
  \/ ReadErrors(1)
  \/ BuildAst(1)
  \/ Format(1)
  \/ provideDocumentFormattingEdits
  \/ provideDocumentRangeFormattingEdits
  \/ ApplyEdits

SpecEditor == Init /\ [][NextEditor]_vars
\* ------------------------------------------------------------------------
\* Web page (docs/app.js).  The page has an input box, an output box and an
\* error box; its buttons run handleFormat, handleCopy, handleClear and
\* loadExample.  The call of formatEcl in handleFormat is the call of
\* caller 1.
\* ------------------------------------------------------------------------
\* the first examples of the page
examples ==
  << <<"4", "0", "4", "6", "8", "4", "0", "0", "3", " ", "|", "C", "l", "i", "n", "i", "c", "a", "l", " ", "f", "i", "n", "d", "i", "n", "g", "|">>,
     <<"<", "<", " ", "7", "3", "2", "1", "1", "0", "0", "9", " ", "|", "D", "i", "a", "b", "e", "t", "e", "s", " ", "m", "e", "l", "l", "i", "t", "u", "s", "|">> >>

\* the texts the user types into the input box
PageInputs ==
  { <<"<", "<", " ", "1", "2", "3", "4", "5", "6">>,
    <<"1", "2", "3", "4", "5", "6", " ", "a", "n", "d">>,
    <<"(", "(", "(", "(", "(", "*", ")", ")", ")", ")", ")">>,
    <<" ">>,
    <<>> }

\* clicks on the buttons of the page, and edits of the input box
MaxClicks == 3

MaxEdits == 2

\* showError(message)
showError(prefix, message) ==
  [visible |-> TRUE, prefix |-> prefix, message |-> message]

\* the user types into the input box
EditInput ==
  \E text \in PageInputs :
    /\ ~page.pending
    /\ page.edits < MaxEdits
    /\ text # page.input
    /\ page' = [page EXCEPT !.input = text, !.ended = "edit",
                            !.edits = @ + 1]
    /\ UNCHANGED <<editor, parser, pc, frame, outcome, calls, prev>>

\* handleFormat up to the call of formatEcl: the error box is hidden, and
\* for a blank input an error is shown and the handler returns
BeginFormat(input) ==
  /\ ~page.pending
  /\ page.clicks < MaxClicks
  /\ IF Len(trim(input)) = 0
     THEN page' = [page EXCEPT
                     !.input = input,
                     !.error = showError("", "Please enter an ECL expression"),
                     !.ended = "format", !.clicks = @ + 1]
     ELSE /\ calls < MaxCalls
          /\ page' = [page EXCEPT !.input = input, !.error = NoPageError,
                                  !.ended = "none", !.pending = TRUE,
                                  !.clicks = @ + 1]
  /\ UNCHANGED <<editor, parser, pc, frame, outcome, calls, prev>>

\* the Format button
handleFormat == BeginFormat(page.input)

\* an example button: the example is put into the input box and formatted
loadExample == \E index \in DOMAIN examples : BeginFormat(examples[index])

\* handleFormat calls formatEcl(input, defaultOptions)
PageCallsFormatEcl ==
  /\ page.pending
  /\ Enter(1, page.input, defaultOptions, FALSE)

\* handleFormat after formatEcl: the result's error is shown and the output
\* box emptied, or the formatted text is put into the output box, or the
\* exception that left formatEcl is caught and shown
handleFormatReturns ==
  /\ page.pending
  /\ pc[1] = "return"
  /\ page' = [page EXCEPT
                !.error =
                  IF outcome[1].kind = "throw"
                  THEN showError("Unexpected error: ", outcome[1].error.value)
                  ELSE IF outcome[1].error.type = "string"
                  THEN showError("", outcome[1].error.value)
                  ELSE @,
                !.output =
                  IF outcome[1].kind = "throw"
                  THEN @
                  ELSE IF outcome[1].error.type = "string" THEN <<>>
                  ELSE outcome[1].formatted.value,
                !.ended = "format",
                !.pending = FALSE]
  /\ prev' = [text |-> frame[1].text, options |-> frame[1].options,
              outcome |-> outcome[1], ast |-> frame[1].result.ast]
  /\ pc' = [pc EXCEPT ![1] = "idle"]
  /\ frame' = [frame EXCEPT ![1] = NoFrame]
  /\ outcome' = [outcome EXCEPT ![1] = NoOutcome]
  /\ UNCHANGED <<editor, parser, calls>>

\* the Copy button: the text of the output box goes to the clipboard, and
\* an error is shown if there is none
handleCopy ==
  /\ ~page.pending
  /\ page.clicks < MaxClicks
  /\ page' = [page EXCEPT
                !.error = IF Len(page.output) = 0
                          THEN showError("", "Nothing to copy") ELSE @,
                !.clipboard = IF Len(page.output) = 0 THEN @ ELSE page.output,
                !.ended = "copy", !.clicks = @ + 1]
  /\ UNCHANGED <<editor, parser, pc, frame, outcome, calls, prev>>

\* the Clear button
handleClear ==
  /\ ~page.pending
  /\ page.clicks < MaxClicks
  /\ page' = [page EXCEPT !.input = <<>>, !.output = <<>>, !.error = NoPageError,
                          !.ended = "clear", !.clicks = @ + 1]
  /\ UNCHANGED <<editor, parser, pc, frame, outcome, calls, prev>>

NextPage ==
  \/ EditInput
  \/ handleFormat
  \/ loadExample
  \/ PageCallsFormatEcl
  \/ Tokenize(1)
  \/ AssignInput(1)
  \/ RunRules(1)
  \/ ReadErrors(1)
  \/ BuildAst(1)
  \/ Format(1)
  \/ handleFormatReturns
  \/ handleCopy
  \/ handleClear

SpecPage == Init /\ [][NextPage]_vars

\* ------------------------------------------------------------------------
\* Properties
\* ------------------------------------------------------------------------
\* the call of caller c has ended by returning a formatted text
Formatted(c) ==
  /\ pc[c] = "return"
  /\ outcome[c].kind = "return"
  /\ outcome[c].error.type = "null"

\* the conjunction tokens of a text, in order
ConjunctionsIn(tokens) ==
  LET cs == SelectSeq(tokens, LAMBDA t : t.tokenType \in ConjunctionTokens)
  IN  [i \in DOMAIN cs |-> cs[i].tokenType]

\* line and column (from 0) of the i-th character of s
LineOf(s, i) == Cardinality({k \in 1..(i - 1) : s[k] = "\n"})

ColumnOf(s, i) == i - 1 - Max({0} \cup {k \in 1..(i - 1) : s[k] = "\n"})

\* the ')' at j closes the '(' at i
Matching(s, i, j) ==
  LET opened(k) == Cardinality({m \in (i + 1)..(k - 1) : s[m] = "("})
      closed(k) == Cardinality({m \in (i + 1)..(k - 1) : s[m] = ")"})
  IN  /\ i < j
      /\ opened(j) = closed(j)
      /\ \A k \in (i + 1)..(j - 1) : s[k] = ")" => opened(k) > closed(k)

\* every pair of parentheses that spans lines is in one column
Aligned(s) ==
  \A i \in {k \in DOMAIN s : s[k] = "("} :
    \A j \in {k \in DOMAIN s : s[k] = ")"} :
      Matching(s, i, j) /\ LineOf(s, i) # LineOf(s, j)
        => ColumnOf(s, i) = ColumnOf(s, j)

\* C1: formatting the formatted text of a valid input again, with the same
\* options, succeeds and returns that text unchanged.
C1_Idempotent ==
  (pc[1] = "return" /\ frame[1].again)
    => /\ outcome[1].kind = "return"
       /\ outcome[1].formatted = String(frame[1].text)

\* C2: parsing the formatted text of a valid input yields the tree that
\* parsing the input yields.
C2_RoundTrip ==
  (pc[1] = "return" /\ frame[1].again) => frame[1].result.ast = prev.ast

\* C3: the conjunctions printed between the items of the lists of a valid
\* input are, position by position, the conjunctions written in the input.
C3_ConjunctionsPreserved ==
  Formatted(1)
    => ConjunctionsIn(tokenize(outcome[1].formatted.value).tokens)
         = ConjunctionsIn(frame[1].lexResult.tokens)

RecordsErrors(text) ==
  LET lexResult == tokenize(trim(text))
      run == RunGrammar(lexResult.tokens)
  IN  /\ Len(trim(text)) > 0
      /\ \/ Len(lexResult.errors) > 0
         \/ ~run.thrown /\ Len(run.errors) > 0

\* C5: a call on a non-empty text on which the tokenizer or the parser
\* records an error returns formatted = null and an error, whatever the
\* options are and whether or not the parser still produced a tree.
C5_ErrorResult ==
  (pc[1] = "return" /\ RecordsErrors(frame[1].text))
    => /\ outcome[1].kind = "return"
       /\ outcome[1].formatted = null
       /\ outcome[1].error.type = "string"

C5_Witness ==
  /\ pc[1] = "return"
  /\ frame[1].text = <<"1", "2", "3", "4", "5", "6", " ", "2", "3", "4", "5", "6", "7">>
  /\ frame[1].options.indentSize # defaultOptions.indentSize
  /\ frame[1].cst.name = "expressionConstraint"
  /\ outcome[1] = Return(null, String("NotAllInputParsedException"))

\* C6: no call of formatEcl ends with an exception leaving it.
C6_NeverThrows == \A c \in Callers : outcome[c].kind # "throw"

\* C7: every call returns what it returns when it is the only call ever
\* made, whatever calls came before it.
C7_IndependentOfHistory ==
  pc[1] = "return" => outcome[1] = formatEcl(frame[1].text, frame[1].options)

C7_Witness ==
  /\ pc[1] = "return"
  /\ calls = 2
  /\ prev.text = <<"1", "2", "3", "4", "5", "6", " ", "A", "N", "D">>
  /\ prev.outcome.error.type = "string"
  /\ frame[1].text = <<"<", "<", " ", "1", "2", "3", "4", "5", "6">>
  /\ outcome[1].formatted = String(<<"<", "<", " ", "1", "2", "3", "4", "5", "6">>)

C9_ParenthesesAligned == Formatted(1) => Aligned(outcome[1].formatted.value)

KeywordImages(text) ==
  LET ks == SelectSeq(tokenize(text).tokens,
                      LAMBDA t : t.tokenType \in BooleanOperatorTokens)
  IN  {ks[i].image : i \in DOMAIN ks}

\* C11: two operands joined by a logical keyword written in any letter case
\* are formatted to the text that the same input with the keyword in upper
\* case is formatted to, and that text has the keyword in upper case only.
C11_CaseNormalized ==
  \A o \in OperandPairs, k \in KeywordCases :
    (pc[1] = "return" /\ frame[1].text = Joined(o, k.written))
      => /\ outcome[1] = formatEcl(Joined(o, k.upper), frame[1].options)
         /\ outcome[1].formatted = String(Joined(o, k.upper))
         /\ KeywordImages(outcome[1].formatted.value) = {k.upper}

C11_Witness ==
  /\ pc[1] = "return"
  /\ frame[1].text = <<"<", "<", " ", "1", "2", "3", "4", "5", "6", " ", "A", "n", "d", " ", "<", "<", " ", "2", "3", "4", "5", "6", "7">>
  /\ outcome[1].formatted = String(<<"<", "<", " ", "1", "2", "3", "4", "5", "6", " ", "A", "N", "D", " ", "<", "<", " ", "2", "3", "4", "5", "6", "7">>)

\* the text is empty or has white space only
Blank(text) == \A i \in DOMAIN text : text[i] \in SpaceChar

\* C12: a call on a text that is empty or white space only returns
\* formatted = null and the error "Empty input" and enters no stage; a call
\* on any other text returns what a call on the trimmed text returns.
C12_EmptyInput ==
  pc[1] = "return"
    => IF Blank(frame[1].text)
       THEN /\ outcome[1] = Return(null, String("Empty input"))
            /\ frame[1].stages = <<>>
       ELSE /\ outcome[1] = formatEcl(trim(frame[1].text), frame[1].options)
            /\ frame[1].stages # <<>>

C12_Witness ==
  /\ pc[1] = "return"
  /\ frame[1].text = <<"\t", "\n", " ">>
  /\ outcome[1] = Return(null, String("Empty input"))


\* C13: when the tokenizer reports a lexical error the call enters neither
\* the parser nor the AST builder, and the error it returns is the message
\* of the first lexical error.
C13_LexicalErrorsStop ==
  LET errors == tokenize(trim(frame[1].text)).errors
  IN  (pc[1] = "return" /\ Len(errors) > 0)
        => /\ frame[1].stages = <<"tokenize">>
           /\ frame[1].cst = EmptyCst
           /\ outcome[1] = Return(null, String(errors[1].message))

C13_Witness ==
  /\ pc[1] = "return"
  /\ frame[1].text = <<"1", "2", "3", "4", "5", "6", " ", "%", " ", "$">>
  /\ Len(frame[1].lexResult.errors) = 2
  /\ frame[1].lexResult.errors[1].message # frame[1].lexResult.errors[2].message
  /\ outcome[1] = Return(null, String("unexpected character: ->%<-"))

\* C14: when formatEcl returned formatted = null for the text a provider
\* was given, the provider returns no edits and the document stays as it
\* was; the text a range request is served from is the text of the range,
\* and an edit replaces exactly that range.
C14_NoEditOnFailure ==
  (editor.request # "none" /\ ~editor.pending)
    => /\ editor.result
            = formatEcl(getText(editor.seen, editor.range),
                        [indentSize |-> editor.indentSize])
       /\ editor.request = "document" => editor.range = fullRange(editor.seen)
       /\ editor.result.formatted = null
            => /\ editor.edits = <<>>
               /\ editor.document = editor.seen
       /\ editor.result.formatted # null
            => editor.edits = << [range |-> editor.range,
                                  newText |-> editor.result.formatted.value] >>

C14_Witness ==
  /\ editor.request = "range"
  /\ editor.seen = <<"*", " ", "o", "r", " ", "*", " ", "$">>
  /\ editor.range = [start |-> 2, end |-> 8]
  /\ editor.result.formatted = null
  /\ editor.result.error.type = "string"
  /\ editor.applied
  /\ editor.document = <<"*", " ", "o", "r", " ", "*", " ", "$">>

\* C15: a filter block with one well-formed constraint of any of the eight
\* kinds is formatted without error, and the formatted text has a
\* constraint of the same kind.
C15_AllFilterKinds ==
  \A k \in FilterKinds :
    (pc[1] = "return" /\ frame[1].text = FilterOf(k.constraint))
      => /\ outcome[1].kind = "return"
         /\ outcome[1].error = null
         /\ tokenize(outcome[1].formatted.value).tokens[3].tokenType = k.keyword

Nth(S, k) == CHOOSE x \in S : Cardinality({y \in S : y < x}) = k - 1

\* the positions in s of the character c that stands single, not doubled as
\* in the braces of a filter
Single(s, c) ==
  {i \in DOMAIN s : /\ s[i] = c
                    /\ i > 1 => s[i - 1] # c
                    /\ i < Len(s) => s[i + 1] # c}

\* the index of the first character of the line that index i is on
LineStart(s, i) == 1 + Max({0} \cup {k \in 1..(i - 1) : s[k] = "\n"})

\* the number of spaces the line of index i begins with
IndentOf(s, i) == RunLen(s, LineStart(s, i), {" "})

\* the indexes at which the lines after the line of i and before the line
\* of j begin
LinesBetween(s, i, j) ==
  {k + 1 : k \in {m \in i..(j - 1) : s[m] = "\n"}} \ {LineStart(s, j)}

\* the layout of the group that opens at i and closes at j in s: a group
\* of two or more attributes is broken, one of a single attribute is
\* framed as { attribute }, on one line if oneLine says so
GroupLayout(s, i, j, group, options, oneLine) ==
  IF Len(group.items) >= 2
  THEN /\ s[i + 1] = "\n"
       /\ LineOf(s, j) - LineOf(s, i) >= 2
       /\ j = LineStart(s, j) + IndentOf(s, j)
       /\ ColumnOf(s, j) = IndentOf(s, i)
       /\ Cardinality({k \in LinesBetween(s, i, j) :
                         IndentOf(s, k) = IndentOf(s, i) + options.indentSize})
            = Len(group.items)
       /\ \A k \in LinesBetween(s, i, j) :
            IndentOf(s, k) >= IndentOf(s, i) + options.indentSize
  ELSE /\ s[i + 1] = " "
       /\ s[j - 1] = " "
       /\ oneLine => LineOf(s, i) = LineOf(s, j)

\* the groups among the items of the refinement of a refined expression
GroupsOf(ast) ==
  IF ast.type = "RefinedExpression"
  THEN SelectSeq(ast.refinement.items, LAMBDA item : item.type = "AttributeGroup")
  ELSE <<>>

\* the groups of the formatted text of caller 1 are laid out, those of one
\* attribute on one line as oneLine(group) says
GroupsLaidOut(oneLine(_)) ==
  LET s == outcome[1].formatted.value
      groups == GroupsOf(frame[1].result.ast)
      opens == Single(s, "{")
      closes == Single(s, "}")
  IN  (/\ Formatted(1)
       /\ Len(groups) > 0
       /\ Cardinality(opens) = Len(groups)
       /\ Cardinality(closes) = Len(groups))
        => \A k \in DOMAIN groups :
             GroupLayout(s, Nth(opens, k), Nth(closes, k), groups[k],
                         frame[1].options, oneLine(groups[k]))

TokenTypes(tokens) == [i \in DOMAIN tokens |-> tokens[i].tokenType]

\* C18: two digit strings of 6 to 18 digits joined by a dot, with or
\* without spaces around the dot, are tokenized without error as a concept
\* ID, a dot and a concept ID with the two digit strings as images, and
\* never with a decimal number token.
C18_DottedConceptIds ==
  \A a \in DigitStrings, dot \in DotSpacings, b \in DigitStrings :
    (frame[1].text = Dotted(a, dot, b) /\ frame[1].stages # <<>>)
      => /\ frame[1].lexResult.errors = <<>>
         /\ TokenTypes(frame[1].lexResult.tokens) = <<"SctId", "Dot", "SctId">>
         /\ frame[1].lexResult.tokens[1].image = a
         /\ frame[1].lexResult.tokens[3].image = b

C18_Witness ==
  /\ frame[1].text = <<"1", "2", "3", "4", "5", "6", "7", "8", "9", "0", "1", "2", "3", "4", "5", "6", "7", "8", ".", "1", "2", "3", "4", "5", "6">>
  /\ frame[1].stages = <<"tokenize">>
  /\ TokenTypes(frame[1].lexResult.tokens) = <<"SctId", "Dot", "SctId">>

\* the tokens of caller 1 that begin where the trimmed text continues with
\* the characters of operator
TokensAt(operator) ==
  SelectSeq(frame[1].lexResult.tokens,
            LAMBDA t : StartsWithAt(trim(frame[1].text), t.startOffset + 1,
                                    operator, FALSE))

\* C19: every token that the tokenizer emits where the remaining input
\* starts with "<<!" is one child-or-self-of token with the image "<<!",
\* and every token that it emits where the remaining input starts with ".."
\* is one range token with the image "..".
C19_TokenizerPrecedence ==
  frame[1].stages # <<>>
    => /\ \A i \in DOMAIN TokensAt(<<"<", "<", "!">>) :
            /\ TokensAt(<<"<", "<", "!">>)[i].tokenType = "ChildOrSelfOf"
            /\ TokensAt(<<"<", "<", "!">>)[i].image = <<"<", "<", "!">>
       /\ \A i \in DOMAIN TokensAt(<<".", ".">>) :
            /\ TokensAt(<<".", ".">>)[i].tokenType = "DotDot"
            /\ TokensAt(<<".", ".">>)[i].image = <<".", ".">>

C19_Witness ==
  /\ frame[1].text = <<"*", ":", " ", "[", "0", ".", ".", "*", "]", " ", "{", " ", "[", "1", ".", ".", "1", "]", " ", "1", "2", "3", "4", "5", "6", " ", "=", " ", "<", "<", "!", " ", "2", "3", "4", "5", "6", "7", " ", "}">>
  /\ frame[1].stages = <<"tokenize">>
  /\ Len(TokensAt(<<"<", "<", "!">>)) = 1
  /\ Len(TokensAt(<<".", ".">>)) = 2
  /\ TokenTypes(frame[1].lexResult.tokens)
       = <<"Wildcard", "Colon", "LBracket", "Integer", "DotDot", "Wildcard",
           "RBracket", "LBrace", "LBracket", "Integer", "DotDot", "Integer",
           "RBracket", "SctId", "Equals", "ChildOrSelfOf", "SctId", "RBrace">>

\* the lists of the tree under node: for every Refinement, AttributeGroup,
\* NestedAttributeSet and Filter node, its type and the lengths of its item
\* list and of its conjunction list
RECURSIVE ListsOf(_)
ListsOf(node) ==
  LET each(nodes) == UNION {ListsOf(nodes[i]) : i \in DOMAIN nodes}
  IN  CASE node.type = "CompoundExpression" ->
             ListsOf(node.left) \cup ListsOf(node.right)
        [] node.type = "RefinedExpression" ->
             ListsOf(node.expression) \cup ListsOf(node.refinement)
        [] node.type = "SubExpression" ->
             ListsOf(node.focusConcept) \cup each(node.filters)
        [] node.type = "DottedAttributePath" ->
             ListsOf(node.base) \cup each(node.attributes)
        [] node.type = "NestedExpression" -> ListsOf(node.expression)
        [] node.type \in {"Refinement", "AttributeGroup", "NestedAttributeSet"} ->
             {[type |-> node.type, items |-> Len(node.items),
               conjunctions |-> Len(node.conjunctions)]} \cup each(node.items)
        [] node.type = "Attribute" ->
             ListsOf(node.name) \cup ListsOf(node.value)
        [] node.type = "Filter" ->
             {[type |-> node.type, items |-> Len(node.constraints),
               conjunctions |-> Len(node.conjunctions)]}
        [] OTHER -> {}

\* C20: in the tree built for a valid input, every Refinement,
\* AttributeGroup, NestedAttributeSet and Filter node with N items has
\* N - 1 conjunctions.
C20_ConjunctionCount ==
  (/\ pc[1] = "return"
   /\ frame[1].result.errors = <<>>
   /\ frame[1].result.ast.type \notin {"undefined", "throw"})
    => \A list \in ListsOf(frame[1].result.ast) :
         list.conjunctions = list.items - 1

\* the nodes of the tree under node that print is called on or could be:
\* the node itself and the expressions, refinements, groups, attributes,
\* paths and values below it
RECURSIVE NodesOf(_)
NodesOf(node) ==
  LET each(nodes) == UNION {NodesOf(nodes[i]) : i \in DOMAIN nodes}
  IN  {node} \cup
      CASE node.type = "CompoundExpression" ->
             NodesOf(node.left) \cup NodesOf(node.right)
        [] node.type = "RefinedExpression" ->
             NodesOf(node.expression) \cup NodesOf(node.refinement)
        [] node.type = "SubExpression" -> NodesOf(node.focusConcept)
        [] node.type = "DottedAttributePath" ->
             NodesOf(node.base) \cup each(node.attributes)
        [] node.type = "NestedExpression" -> NodesOf(node.expression)
        [] node.type \in {"Refinement", "AttributeGroup", "NestedAttributeSet"} ->
             each(node.items)
        [] node.type = "Attribute" ->
             NodesOf(node.name) \cup NodesOf(node.value)
        [] OTHER -> {}

\* the indents and columns that the nodes are printed at
Indents == {0, 2}
Columns == {0, 3}

\* C21: every node of the tree of a formatted input that isComplex calls
\* simple is printed without a newline, at any indent and column.
C21_SimpleMeansInline ==
  Formatted(1)
    => \A node \in NodesOf(frame[1].result.ast) :
         ~isComplex(node)
           => \A indent \in Indents, column \in Columns :
                ~HasNewline(print(node, frame[1].options, indent, column))

\* the operands of the chain that ends in node, from left to right
RECURSIVE OperandsOf(_)
OperandsOf(node) ==
  IF node.type = "CompoundExpression"
  THEN Append(OperandsOf(node.left), node.right)
  ELSE <<node>>

\* the structural rules in terms of the parts of the node
StructurallyComplex(node) ==
  \/ node.type = "RefinedExpression"
  \/ /\ node.type = "CompoundExpression"
     /\ \/ Len(OperandsOf(node)) > 2
        \/ isComplex(node.left)
        \/ isComplex(node.right)
  \/ /\ node.type = "SubExpression"
     /\ \/ Len(node.filters) >= 1
        \/ node.focusConcept.type = "NestedExpression"
  \/ /\ node.type = "NestedExpression"
     /\ isComplex(node.expression)
  \/ /\ node.type \in {"AttributeGroup", "NestedAttributeSet"}
     /\ Len(node.items) > 1
  \/ /\ node.type = "Refinement"
     /\ \/ Len(node.items) > 1
        \/ \E i \in DOMAIN node.items : node.items[i].type = "AttributeGroup"

\* the filters, operators and cardinalities of the nodes of a tree
PartsOf(ast) ==
  UNION {CASE node.type = "SubExpression" ->
                {node.filters[i] : i \in DOMAIN node.filters}
                  \cup {node.constraintOperator}
           [] node.type \in {"Attribute", "AttributeGroup"} -> {node.cardinality}
           [] OTHER -> {} : node \in NodesOf(ast)}

LineStarts(s) == {1} \cup {k + 1 : k \in {m \in DOMAIN s : s[m] = "\n"}}

\* the line of s that begins at index k, without its indentation
LineText(s, k) ==
  LET end == Min({j \in k..(Len(s) + 1) : j > Len(s) \/ s[j] = "\n"})
  IN  SubSeq(s, k + IndentOf(s, k), end - 1)

\* the lines of s, each without its indentation
LineTexts(s) == {LineText(s, k) : k \in LineStarts(s)}

\* the texts of the boolean operators and of the conjunctions
OperatorTexts == { <<"A", "N", "D">>, <<"O", "R">>, <<"M", "I", "N", "U", "S">>, <<",">> }

\* the right operand of the compound is a parenthesized expression with no
\* constraint operator and no filter
BareNestedRight(node) ==
  /\ node.type = "CompoundExpression"
  /\ node.right.type = "SubExpression"
  /\ node.right.constraintOperator.type = "undefined"
  /\ Len(node.right.filters) = 0
  /\ node.right.focusConcept.type = "NestedExpression"

\* C23: no line of a formatted text consists of a boolean operator or a
\* conjunction only, and a broken compound whose right operand is a bare
\* parenthesized expression is printed with a line that is the operator
\* and the opening parenthesis together and ends with the parenthesis that
\* closes it in the column of the opening one.
C23_NoLonelyOperators ==
  Formatted(1)
    => /\ LineTexts(outcome[1].formatted.value) \cap OperatorTexts = {}
       /\ \A node \in NodesOf(frame[1].result.ast) :
            (BareNestedRight(node) /\ shouldBreakCompound(node))
              => LET s == print(node, frame[1].options, 0, 0)
                     last == Max(LineStarts(s))
                 IN  /\ \E k \in LineStarts(s) :
                          /\ IndentOf(s, k) = 0
                          /\ LineText(s, k) = str(node.operator) \o <<"(">>
                     /\ LineText(s, last) = <<")">>
                     /\ IndentOf(s, last) = Len(str(node.operator))

C23_Witness ==
  /\ Formatted(1)
  /\ frame[1].text = <<"(", "1", "2", "3", "4", "5", "6", ":", " ", "2", "3", "4", "5", "6", "7", " ", "=", " ", "*", ")", " ", "A", "N", "D", " ", "(", "3", "4", "5", "6", "7", "8", ")">>
  /\ frame[1].options.indentSize = 2
  /\ BareNestedRight(frame[1].result.ast)
  /\ outcome[1].formatted
       = String(<<"(", "\n", " ", " ", "1", "2", "3", "4", "5", "6", ":", " ", "2", "3", "4", "5", "6", "7", " ", "=", " ", "*", "\n", ")", "\n", "A", "N", "D", "(", "\n", " ", " ", " ", " ", " ", "3", "4", "5", "6", "7", "8", "\n", " ", " ", " ", ")">>)

\* the lines of s that are not indented and begin with a boolean operator
OperatorLines(s) ==
  {k \in LineStarts(s) :
     /\ IndentOf(s, k) = 0
     /\ \E operator \in { <<"A", "N", "D">>, <<"O", "R">>, <<"M", "I", "N", "U", "S">> }, next \in {" ", "("} :
          StartsWithAt(s, k, Append(operator, next), FALSE)}

\* C24: when the chain of three or more operands that an input consists of
\* is printed across several lines, each of its operators begins a line, so
\* that there are as many lines beginning with an operator as the chain has
\* operators.
C24_OperatorsStartLines ==
  (/\ Formatted(1)
   /\ Len(OperandsOf(frame[1].result.ast)) >= 3
   /\ HasNewline(outcome[1].formatted.value))
    => Cardinality(OperatorLines(outcome[1].formatted.value))
         = Len(OperandsOf(frame[1].result.ast)) - 1

\* the lines of s from the first to the last, each without its indentation
Layout(s) ==
  [k \in 1..Cardinality(LineStarts(s)) |-> LineText(s, Nth(LineStarts(s), k))]

\* the indent sizes that a layout is compared over
IndentSizes == 1..(MaxIndentSize + 1)

\* C25: the text that a valid input is formatted to with one indent size
\* has the lines that the text it is formatted to with any other indent
\* size has, line by line, apart from the spaces that the lines begin with.
C25_LayoutIndependentOfIndentSize ==
  Formatted(1)
    => \A n \in IndentSizes :
         LET other == formatEcl(frame[1].text, [indentSize |-> n])
         IN  /\ other.error.type = "null"
             /\ Layout(other.formatted.value) = Layout(outcome[1].formatted.value)

C25_Witness ==
  /\ Formatted(1)
  /\ frame[1].text = <<"*", " ", "A", "N", "D", " ", "(", "*", " ", "A", "N", "D", " ", "(", "*", ":", " ", "*", " ", "=", " ", "*", ")", ")">>
  /\ frame[1].options.indentSize = 1
  /\ Len(Layout(outcome[1].formatted.value)) = 7
  /\ outcome[1].formatted # formatEcl(frame[1].text, [indentSize |-> 2]).formatted

\* C26: every value that formatEcl returns has a string as formatted and
\* null as error, or null as formatted and a string that is not empty as
\* error.
C26_ResultExclusive ==
  (pc[1] = "return" /\ outcome[1].kind = "return")
    => \/ /\ outcome[1].formatted.type = "string"
          /\ outcome[1].error = null
       \/ /\ outcome[1].formatted = null
          /\ outcome[1].error.type = "string"
          /\ outcome[1].error.value # ""

C26_Witness ==
  /\ pc[1] = "return"
  /\ frame[1].text = <<"1", "2", "3", "4", "5", "6", " ", "A", "N", "D">>
  /\ outcome[1].kind = "return"
  /\ outcome[1].formatted = null
  /\ outcome[1].error.type = "string"

\* the alternate identifiers of a tree
AlternateIdentifiersOf(ast) ==
  {node \in NodesOf(ast) : node.type = "AlternateIdentifier"}

\* C27: the text that an input with an alternate identifier is formatted
\* to parses without error to a tree with the alternate identifiers, scheme
\* and code, of the tree of the input.
C27_AlternateIdentifiersSurvive ==
  (Formatted(1) /\ AlternateIdentifiersOf(frame[1].result.ast) # {})
    => LET again == parseEcl(NewParser, outcome[1].formatted.value)
       IN  /\ again.errors = <<>>
           /\ again.ast.type \notin {"undefined", "throw"}
           /\ AlternateIdentifiersOf(again.ast)
                = AlternateIdentifiersOf(frame[1].result.ast)

\* C28: a word that begins with the letters of a keyword is tokenized as
\* one Identifier token with the whole word as its image, so that the
\* alternate identifier of a scheme of that name is an Identifier, a hash
\* and a concept ID.
C28_KeywordsMatchWholeWords ==
  \A name \in SchemeNames :
    (frame[1].text = OfScheme(name) /\ frame[1].stages # <<>>)
      => /\ TokenTypes(frame[1].lexResult.tokens) = <<"Identifier", "Hash", "SctId">>
         /\ frame[1].lexResult.tokens[1].image = name

\* the attributes of a tree that have the reverse flag set
ReversedAttributesOf(ast) ==
  {node \in NodesOf(ast) : node.type = "Attribute" /\ node.reverseFlag}

C30_NoStaleOutput ==
  (page.ended = "format" /\ page.error.visible) => page.output = <<>>
====
